---- MODULE Spec2Model ----
(***************************************************************************)
(* A model of the osauth session layer: the Session object with its shared *)
(* authentication object and discovery cache (session.rs), the keyed cache *)
(* (cache.rs) and the version negotiation helpers.                         *)
(*                                                                         *)
(* Rust's Option<T> is modelled as a sequence of length at most one:       *)
(* None is << >> and Some(x) is << x >>.  An ApiVersion(major, minor) is   *)
(* the pair << major, minor >>.                                            *)
(***************************************************************************)
EXTENDS Integers, Sequences, FiniteSets, TLC

(***************************************************************************)
(* Bounds of the model.                                                    *)
(***************************************************************************)
\* Session values alive at the same time (the original and its clones).
MaxSessions == 2
\* Futures returned by Session calls that exist at the same time.
MaxTasks == 2
\* Cache handles (Arc<Cache>) ever allocated.
MaxHandles == 2
\* Authentication objects (Arc<AuthType>) ever allocated.
MaxAuths == 2
\* Longest candidate sequence handed to the version helpers.
MaxCands == 3

(***************************************************************************)
(* Option<T>.                                                              *)
(***************************************************************************)
None == << >>

Some(x) == << x >>

IsSome(o) == o # << >>

Unwrap(o) == o[1]

(***************************************************************************)
(* ApiVersion: ordered by (major, minor).                                  *)
(***************************************************************************)
VersionLe(a, b) == a[1] < b[1] \/ (a[1] = b[1] /\ a[2] <= b[2])

\* The versions used by the tests of session.rs, and one of another major
\* version whose minor number is larger than most of them.
VersionDomain == { <<1, 50>>, <<2, 0>>, <<2, 1>>, <<2, 4>>, <<2, 42>>, <<2, 99>> }

OptVersion == { None } \cup { Some(v) : v \in VersionDomain }

MAJOR_VERSION == <<2, 0>>

MIN_VERSION == <<2, 1>>

MAX_VERSION == <<2, 42>>

(***************************************************************************)
(* ServiceInfo (protocol.rs): root URL, optional major version, optional   *)
(* minimum and current microversion.                                       *)
(***************************************************************************)
ServiceInfo(root, major, min, cur) ==
    [ root_url |-> root, major_version |-> major,
      minimum_version |-> min, current_version |-> cur ]

\* ServiceInfo::supports_api_version: within [minimum, current], and
\* trivially true when the service publishes no microversion range.
ServiceInfoSupports(info, version) ==
    IF IsSome(info.minimum_version) /\ IsSome(info.current_version)
    THEN /\ VersionLe(Unwrap(info.minimum_version), version)
         /\ VersionLe(version, Unwrap(info.current_version))
    ELSE TRUE

(***************************************************************************)
(* The projections the Session queries hand to extract_service_info.       *)
(***************************************************************************)
\* Iterator::max over a sequence: None when it is empty.
RECURSIVE IterMax(_, _)
IterMax(items, acc) ==
    IF items = << >> THEN acc
    ELSE IterMax(Tail(items),
                 IF acc = None \/ VersionLe(Unwrap(acc), Head(items))
                 THEN Some(Head(items)) ELSE acc)

\* A get_api_versions that reports a range as soon as a minimum is known.
GetApiVersionsFilterFromMinimum(info) ==
    IF IsSome(info.minimum_version)
    THEN Some(<< Unwrap(info.minimum_version),
                 IF IsSome(info.current_version)
                 THEN Unwrap(info.current_version) ELSE Unwrap(info.minimum_version) >>)
    ELSE None

\* The closure of get_api_versions.
GetApiVersionsFilter(info) ==
    IF IsSome(info.minimum_version) /\ IsSome(info.current_version)
    THEN Some(<< Unwrap(info.minimum_version), Unwrap(info.current_version) >>)
    ELSE None

\* The closure of get_major_version.
GetMajorVersionFilter(info) == info.major_version

\* A pick_api_version that takes the maximum requested version and then
\* asks whether it is supported.
PickApiVersionFilterMaxRequested(info, items) ==
    LET m == IterMax(items, None)
    IN  IF IsSome(m) /\ ServiceInfoSupports(info, Unwrap(m)) THEN m ELSE None

\* The closure of pick_api_version: vers.filter(supported).max().
PickApiVersionFilter(info, items) ==
    IterMax(SelectSeq(items, LAMBDA item : ServiceInfoSupports(info, item)), None)

\* A pick_api_version without the early return.
PickShortCircuitNever(vers) == FALSE

\* pick_api_version's early return: the iterator's size hint has the upper
\* bound Some(0).
PickShortCircuit(vers) == vers.upper = Some(0)

\* pick_api_version on a service whose ServiceInfo is info.
PickApiVersion(info, vers) ==
    IF PickShortCircuit(vers) THEN None ELSE PickApiVersionFilter(info, vers.items)

\* A supports_api_version that maps the pick through is_none.
SupportsApiVersionIsNone(info, version) ==
    ~IsSome(PickApiVersion(info, [items |-> << version >>, upper |-> Some(1)]))

\* supports_api_version: pick_api_version(service, Some(version)).is_some().
SupportsApiVersion(info, version) ==
    IsSome(PickApiVersion(info, [items |-> << version >>, upper |-> Some(1)]))

(***************************************************************************)
(* The collaborators of the Session.                                       *)
(***************************************************************************)
\* Catalog types of the services queried.
Services == { "compute", "image" }

\* Values handed to set_endpoint_interface.
Interfaces == { "public", "internal" }

\* A URL: the endpoint it was derived from, and its path segments; a URL
\* that ends in a slash has an empty last segment.
\* AuthType::get_endpoint of a catalog-backed authentication: a base URL
\* of its own for every (authentication object, service type, interface),
\* such as http://127.0.0.1:5000/.
AuthGetEndpoint(a, service_type, endpoint_interface) ==
    [ auth |-> a, service |-> service_type,
      interface |-> endpoint_interface, path |-> << "" >> ]

\* The escaping of one path segment: a slash inside a segment does not
\* start a new one.
UrlEscape(segment) == IF segment = "a/b" THEN "a%2Fb" ELSE segment

\* The path of a URL without the empty segment of a trailing slash.
UrlPopIfEmpty(path) ==
    IF Len(path) > 0 /\ path[Len(path)] = ""
    THEN SubSeq(path, 1, Len(path) - 1) ELSE path

\* url::extend: the path segments appended in order, each escaped.
UrlExtend(url, path) ==
    [ url EXCEPT !.path = UrlPopIfEmpty(@)
                            \o [ i \in 1..Len(path) |-> UrlEscape(path[i]) ] ]

\* A get_endpoint that appends the segments in the reverse order.
GetEndpointFilterReversed(info, path) ==
    UrlExtend(info.root_url, [ i \in 1..Len(path) |-> path[Len(path) + 1 - i] ])

\* The closure of get_endpoint: url::extend(info.root_url.clone(), path_iter).
GetEndpointFilter(info, path) == UrlExtend(info.root_url, path)

\* The version metadata a discovery fetch may report.
FetchedVersions ==
    { [ major |-> None, min |-> None, cur |-> None ],
      [ major |-> Some(MAJOR_VERSION), min |-> Some(MIN_VERSION),
        cur |-> Some(MAX_VERSION) ] }

\* ServiceInfo::fetch: the root URL of the endpoint with its versions.
ServiceInfoFetch(ep, v) == ServiceInfo(ep, v.major, v.min, v.cur)

(***************************************************************************)
(* State.                                                                  *)
(***************************************************************************)
VARIABLES
    sessions,   \* session slot -> Session {auth, cached_info, endpoint_interface}
    caches,     \* cache handle -> MapCache contents: service -> Option<ServiceInfo>
    nHandles,   \* cache handles allocated so far
    authEpoch,  \* authentication object -> number of completed refreshes
    nAuths,     \* authentication objects allocated so far
    tasks,      \* future slot -> the future of one Session query
    refreshing, \* authentication objects with a pending refresh future
    vin,        \* inputs of the version helpers (SpecVersions)
    vout,       \* the helper applied last and its result (SpecVersions)
    source,     \* the asynchronous stream a SyncStream reads from
    reader,     \* the SyncStream and the reads made on it
    rwlock,     \* the RwLock of a cache: readers, writer, poison flag
    store,      \* what the RwLock of the cache protects
    threads,    \* thread -> the cache operation it is in and what it saw
    runtime     \* SyncSession -> the RefCell of its executor

sessVars == << sessions, caches, nHandles, authEpoch, nAuths, tasks, refreshing >>

streamVars == << source, reader >>

cacheVars == << rwlock, store, threads >>

\* The variables of the cache under its lock and of the executors.
extraVars == << cacheVars, runtime >>

\* The variables that are not of the Session.
pureVars == << vin, vout, streamVars, extraVars >>

vars == << sessVars, pureVars >>

SessionIds == 1..MaxSessions

TaskIds == 1..MaxTasks

HandleIds == 1..MaxHandles

AuthIds == 1..MaxAuths

NoSession ==
    [ live |-> FALSE, auth |-> 0, cached_info |-> 0, endpoint_interface |-> None ]

\* MapCache::default(): no key is set.
EmptyCache == [ k \in Services |-> None ]

NoVers == [ items |-> << >>, upper |-> Some(0) ]

NoResult == [ tag |-> "none", val |-> None ]

Ok(v) == [ tag |-> "ok", val |-> v ]

Err(e) == [ tag |-> "err", val |-> e ]

IdleTask ==
    [ pc |-> "idle", op |-> "none", sess |-> 0, service |-> "none",
      vers |-> NoVers, path |-> << >>, version |-> None, method |-> "none",
      auth |-> 0, cached_info |-> 0, endpoint_interface |-> None,
      ep |-> None, url |-> None, info |-> None, result |-> NoResult,
      verdict |-> "none", trace |-> << >> ]

Live(s) == sessions[s].live

\* MapCache::is_set
IsSet(h, key) == IsSome(caches[h][key])

\* A set that keeps the value a key already has.
MapCacheSetIfAbsent(m, key, value) ==
    IF IsSome(m[key]) THEN m ELSE [ m EXCEPT ![key] = Some(value) ]

\* A cache of one entry: a set evicts the other keys.
MapCacheSetEvicting(m, key, value) ==
    [ k \in DOMAIN m |-> IF k = key THEN Some(value) ELSE None ]

\* MapCache::set: HashMap::insert, which replaces the value of the key.
MapCacheSet(m, key, value) == [ m EXCEPT ![key] = Some(value) ]

\* The lowest free future slot and session slot (0: none).
FreeTask ==
    IF \E t \in TaskIds : tasks[t].pc = "idle"
    THEN CHOOSE t \in TaskIds :
            tasks[t].pc = "idle" /\ \A u \in TaskIds : tasks[u].pc = "idle" => t <= u
    ELSE 0

FreeSession ==
    IF \E s \in SessionIds : ~Live(s)
    THEN CHOOSE s \in SessionIds : ~Live(s) /\ \A u \in SessionIds : ~Live(u) => s <= u
    ELSE 0

(***************************************************************************)
(* Session: construction, clones and the operations that replace the      *)
(* cache handle.                                                           *)
(***************************************************************************)
\* A reset_cache that leaves the handle in place.
ResetCacheKeep(s) == sessions[s].cached_info

\* Session::reset_cache: the handle of a new, empty MapCache.
ResetCache(s) == nHandles + 1

\* Session::new
SessionNew ==
    /\ FreeSession # 0
    /\ nAuths < MaxAuths
    /\ nHandles < MaxHandles
    /\ sessions' = [ sessions EXCEPT ![FreeSession] =
                        [ live |-> TRUE, auth |-> nAuths + 1,
                          cached_info |-> nHandles + 1,
                          endpoint_interface |-> None ] ]
    /\ nAuths' = nAuths + 1
    /\ nHandles' = nHandles + 1
    /\ UNCHANGED << caches, authEpoch, tasks, refreshing, pureVars >>

\* A clone that copies the cache into a handle of its own.
CloneDeep(s) ==
    /\ Live(s)
    /\ FreeSession # 0
    /\ nHandles < MaxHandles
    /\ sessions' = [ sessions EXCEPT ![FreeSession] =
                        [ sessions[s] EXCEPT !.cached_info = nHandles + 1 ] ]
    /\ caches' = [ caches EXCEPT ![nHandles + 1] = caches[sessions[s].cached_info] ]
    /\ nHandles' = nHandles + 1
    /\ UNCHANGED << authEpoch, nAuths, tasks, refreshing, pureVars >>

\* #[derive(Clone)]: the Arc handles and the interface are copied.
Clone(s) ==
    /\ Live(s)
    /\ FreeSession # 0
    /\ sessions' = [ sessions EXCEPT ![FreeSession] = sessions[s] ]
    /\ UNCHANGED << caches, nHandles, authEpoch, nAuths, tasks, refreshing, pureVars >>

\* A set_auth_type that empties the shared cache instead of replacing the
\* handle.
SetAuthTypeInPlace(s) ==
    /\ Live(s)
    /\ nAuths < MaxAuths
    /\ sessions' = [ sessions EXCEPT ![s].auth = nAuths + 1 ]
    /\ caches' = [ caches EXCEPT ![sessions[s].cached_info] = EmptyCache ]
    /\ nAuths' = nAuths + 1
    /\ UNCHANGED << nHandles, authEpoch, tasks, refreshing, pureVars >>

\* Session::set_auth_type
SetAuthType(s) ==
    /\ Live(s)
    /\ nHandles < MaxHandles
    /\ nAuths < MaxAuths
    /\ sessions' = [ sessions EXCEPT ![s].cached_info = ResetCache(s),
                                     ![s].auth = nAuths + 1 ]
    /\ nHandles' = nHandles + 1
    /\ nAuths' = nAuths + 1
    /\ UNCHANGED << caches, authEpoch, tasks, refreshing, pureVars >>

\* A set_endpoint_interface that keeps the cache handle.
SetEndpointInterfaceInPlace(s, i) ==
    /\ Live(s)
    /\ sessions' = [ sessions EXCEPT ![s].endpoint_interface = Some(i) ]
    /\ UNCHANGED << caches, nHandles, authEpoch, nAuths, tasks, refreshing, pureVars >>

\* Session::set_endpoint_interface
SetEndpointInterface(s, i) ==
    /\ Live(s)
    /\ nHandles < MaxHandles
    /\ sessions' = [ sessions EXCEPT ![s].cached_info = ResetCache(s),
                                     ![s].endpoint_interface = Some(i) ]
    /\ nHandles' = nHandles + 1
    /\ UNCHANGED << caches, authEpoch, nAuths, tasks, refreshing, pureVars >>

\* Session::with_auth_type: set_auth_type on the Session moved in.
WithAuthType(s) == SetAuthType(s)

\* Session::with_endpoint_interface
WithEndpointInterface(s, i) == SetEndpointInterface(s, i)

(***************************************************************************)
(* Session queries.  A call runs the synchronous part of the method and   *)
(* returns a future (a task); the other actions are the steps the future  *)
(* takes when it is polled.                                                *)
(***************************************************************************)
\* The calls made in the model.
CallInputs ==
    { [ op |-> "get_endpoint", vers |-> NoVers, path |-> << "v2", "servers" >>,
        version |-> None,
        method |-> "none" ],
      [ op |-> "get_major_version", vers |-> NoVers, path |-> << >>, version |-> None,
        method |-> "none" ],
      [ op |-> "get_api_versions", vers |-> NoVers, path |-> << >>, version |-> None,
        method |-> "none" ],
      \* None or Vec::new()
      [ op |-> "pick_api_version", vers |-> NoVers, path |-> << >>, version |-> None,
        method |-> "none" ],
      \* an iterator that turns out empty, which its size hint does not tell
      [ op |-> "pick_api_version", vers |-> [ items |-> << >>, upper |-> Some(1) ],
        path |-> << >>, version |-> None,
        method |-> "none" ],
      [ op |-> "pick_api_version",
        vers |-> [ items |-> << <<2, 0>>, <<2, 4>>, <<2, 99>> >>, upper |-> Some(3) ],
        path |-> << >>, version |-> None,
        method |-> "none" ],
      [ op |-> "supports_api_version", vers |-> NoVers, path |-> << >>,
        version |-> Some(<<2, 4>>), method |-> "none" ],
      [ op |-> "request", vers |-> NoVers, path |-> << "servers" >>, version |-> None,
        method |-> "HEAD" ],
      [ op |-> "request", vers |-> NoVers, path |-> << "servers" >>,
        version |-> Some(<<2, 4>>), method |-> "GET" ] }

\* The caller's projection of each query.
Project(q, info) ==
    CASE q.op \in { "get_endpoint", "request" } -> GetEndpointFilter(info, q.path)
      [] q.op = "get_major_version" -> GetMajorVersionFilter(info)
      [] q.op = "get_api_versions" -> GetApiVersionsFilter(info)
      [] q.op \in { "pick_api_version", "supports_api_version" } ->
            PickApiVersionFilter(info, q.vers.items)

\* What the query does with the projection: supports_api_version maps it
\* through is_some, request goes on with the URL.
Resolved(q, value) ==
    IF q.op = "request"
    THEN [ q EXCEPT !.pc = "url", !.url = Some(value) ]
    ELSE [ q EXCEPT !.pc = "done",
                    !.result = Ok(IF q.op = "supports_api_version"
                                  THEN IsSome(value) ELSE value) ]

\* An extract_service_info that does not look into the cache.
ExtractServiceInfoAlwaysFetch(s, q) ==
    [ q EXCEPT !.pc = "get_endpoint",
               !.endpoint_interface = sessions[s].endpoint_interface,
               !.cached_info = sessions[s].cached_info,
               !.auth = sessions[s].auth,
               !.trace = @ \o << "get_endpoint" >> ]

\* extract_service_info, up to the future it returns: the is_set check;
\* on a hit MapCache::extract with the caller's projection, whose value the
\* future is ready with; on a miss the clones of the handles and the call
\* of auth.get_endpoint.
ExtractServiceInfo(s, q) ==
    IF IsSet(sessions[s].cached_info, q.service)
    THEN Resolved([ q EXCEPT !.cached_info = sessions[s].cached_info,
                             !.trace = @ \o << "is_set", "extract" >> ],
                  Project(q, Unwrap(caches[sessions[s].cached_info][q.service])))
    ELSE [ q EXCEPT !.pc = "get_endpoint",
                    !.endpoint_interface = sessions[s].endpoint_interface,
                    !.cached_info = sessions[s].cached_info,
                    !.auth = sessions[s].auth,
                    !.trace = @ \o << "is_set", "get_endpoint" >> ]

\* The future a call of c on session s returns.
CallFuture(s, c, service) ==
    LET q == [ IdleTask EXCEPT
                 !.op = c.op, !.sess = s, !.service = service,
                 !.vers = IF c.op = "supports_api_version"
                          THEN [ items |-> c.version, upper |-> Some(1) ]
                          ELSE c.vers,
                 !.path = c.path, !.version = c.version, !.method = c.method,
                 !.auth = IF c.op = "request" THEN sessions[s].auth ELSE 0 ]
    IN  IF c.op = "pick_api_version" /\ PickShortCircuit(c.vers)
        THEN [ q EXCEPT !.pc = "done", !.result = Ok(None) ]
        ELSE ExtractServiceInfo(s, q)

\* No query is under way: the caller has taken the result of the last one.
Quiet == \A t \in TaskIds : tasks[t].pc = "idle"

Call(s, c, service) ==
    /\ Live(s)
    /\ FreeTask # 0
    /\ tasks' = [ tasks EXCEPT ![FreeTask] = CallFuture(s, c, service) ]
    /\ UNCHANGED << sessions, caches, nHandles, authEpoch, nAuths, refreshing, pureVars >>

\* A chain that turns the error into the success value None.
FailedAsNone(q, e) == [ q EXCEPT !.pc = "done", !.result = Ok(None) ]

\* An error in the chain of and_then and map: the closures that follow are
\* not called and the future resolves to the error.
Failed(q, e) == [ q EXCEPT !.pc = "done", !.result = Err(e) ]

\* auth.get_endpoint completes: with the endpoint, which the and_then
\* closure hands to ServiceInfo::fetch, or with an error.
EndpointDone(t) ==
    LET q == tasks[t]
    IN  /\ q.pc = "get_endpoint"
        /\ \/ tasks' = [ tasks EXCEPT ![t] =
                           [ q EXCEPT !.pc = "fetch",
                                      !.ep = Some(AuthGetEndpoint(q.auth, q.service,
                                                                  q.endpoint_interface)),
                                      !.trace = @ \o << "fetch" >> ] ]
           \/ tasks' = [ tasks EXCEPT ![t] =
                           Failed(q, "auth") ]
        /\ UNCHANGED << sessions, caches, nHandles, authEpoch, nAuths, refreshing, pureVars >>

\* A map closure that stores into the handle the Session holds by then.
StoreHandleCurrent(t) == sessions[tasks[t].sess].cached_info

\* The handle the map closure of extract_service_info stores into: the
\* clone of the Arc taken when the query was issued.
StoreHandle(t) == tasks[t].cached_info

\* What the map closure of extract_service_info does with the fetched
\* info: the projection first, then MapCache::set.
MissClosure == << "filter", "set" >>

\* ServiceInfo::fetch completes: the map closure applies the projection and
\* then stores the info under the catalog type; or the fetch fails.
FetchDone(t) ==
    LET q == tasks[t]
    IN  /\ q.pc = "fetch"
        /\ \/ \E v \in FetchedVersions :
                LET info == ServiceInfoFetch(Unwrap(q.ep), v)
                IN  /\ caches' = [ caches EXCEPT
                                     ![StoreHandle(t)] =
                                        MapCacheSet(@, q.service, info) ]
                    /\ tasks' = [ tasks EXCEPT ![t] =
                                    Resolved([ q EXCEPT !.info = Some(info),
                                                        !.trace = @ \o MissClosure ],
                                             Project(q, info)) ]
           \/ /\ tasks' = [ tasks EXCEPT ![t] =
                              Failed(q, "discovery") ]
              /\ UNCHANGED caches
        /\ UNCHANGED << sessions, nHandles, authEpoch, nAuths, refreshing, pureVars >>

\* Session::request, the first and_then closure: auth.request(method, url).
AuthRequest(t) ==
    LET q == tasks[t]
    IN  /\ q.pc = "url"
        /\ tasks' = [ tasks EXCEPT ![t] =
                        [ q EXCEPT !.pc = "auth_request",
                                   !.trace = @ \o << "auth_request" >> ] ]
        /\ UNCHANGED << sessions, caches, nHandles, authEpoch, nAuths, refreshing, pureVars >>

\* AuthType::request: the request scaffold for (method, url), with the
\* authentication of a applied and no version header.
AuthRequestBuilder(a, method, url) ==
    [ auth |-> a, method |-> method, url |-> url, headers |-> None ]

\* A closure that asks for version headers whether or not a version was
\* given.
RequestHeadersAlways(builder, api_version, accepted) ==
    [ calls |-> << "set_headers" >>,
      result |-> IF accepted
                 THEN Ok([ builder EXCEPT !.headers = api_version ])
                 ELSE Err("version") ]

\* A closure that drops the error of set_api_version_headers.
RequestHeadersIgnoreError(builder, api_version, accepted) ==
    IF api_version = None
    THEN [ calls |-> << >>, result |-> Ok(builder) ]
    ELSE [ calls |-> << "set_headers" >>,
           result |-> Ok(IF accepted
                         THEN [ builder EXCEPT !.headers = api_version ]
                         ELSE builder) ]

\* Session::request, the second and_then closure: with an api_version the
\* service's set_api_version_headers is called, whose headers go onto the
\* builder and whose error fails the request; without one the builder is
\* passed on.
RequestHeaders(builder, api_version, accepted) ==
    IF api_version = None
    THEN [ calls |-> << >>, result |-> Ok(builder) ]
    ELSE [ calls |-> << "set_headers" >>,
           result |-> IF accepted
                      THEN Ok([ builder EXCEPT !.headers = api_version ])
                      ELSE Err("version") ]

\* auth.request completes with the builder, which the second and_then
\* closure of Session::request takes on; the service descriptor accepts the
\* version or rejects it.  Or auth.request fails.
AuthRequestDone(t) ==
    LET q == tasks[t]
        builder == AuthRequestBuilder(q.auth, q.method, Unwrap(q.url))
    IN  /\ q.pc = "auth_request"
        /\ \/ \E accepted \in BOOLEAN :
                LET r == RequestHeaders(builder, q.version, accepted)
                IN  /\ q.version = None => accepted
                    /\ tasks' = [ tasks EXCEPT ![t] =
                                    [ q EXCEPT
                                        !.pc = "done",
                                        !.trace = @ \o r.calls,
                                        !.verdict = IF q.version = None THEN "none"
                                                    ELSE IF accepted THEN "accepted"
                                                    ELSE "rejected",
                                        !.result = r.result ] ]
           \/ tasks' = [ tasks EXCEPT ![t] =
                           Failed(q, "auth") ]
        /\ UNCHANGED << sessions, caches, nHandles, authEpoch, nAuths, refreshing, pureVars >>

\* A refresh that empties the shared cache instead of replacing the handle.
RefreshInPlace(s) ==
    /\ Live(s)
    /\ sessions[s].auth \notin refreshing
    /\ caches' = [ caches EXCEPT ![sessions[s].cached_info] = EmptyCache ]
    /\ refreshing' = refreshing \cup { sessions[s].auth }
    /\ UNCHANGED << sessions, nHandles, authEpoch, nAuths, tasks, pureVars >>

\* A refresh that leaves the cache to the completion of auth.refresh.
RefreshFutureLazy(s) ==
    /\ Live(s)
    /\ sessions[s].auth \notin refreshing
    /\ refreshing' = refreshing \cup { sessions[s].auth }
    /\ UNCHANGED << sessions, caches, nHandles, authEpoch, nAuths, tasks, pureVars >>

\* Session::refresh: reset_cache, then auth.refresh() on the shared
\* object, whose future is returned.
RefreshFuture(s) ==
    /\ Live(s)
    /\ sessions[s].auth \notin refreshing
    /\ sessions' = [ sessions EXCEPT ![s].cached_info = ResetCache(s) ]
    /\ nHandles' = nHandles + 1
    /\ refreshing' = refreshing \cup { sessions[s].auth }
    /\ UNCHANGED << caches, authEpoch, nAuths, tasks, pureVars >>

\* Session::refresh while a handle is left for the new cache.
Refresh(s) == nHandles < MaxHandles /\ RefreshFuture(s)

\* The future of auth.refresh completes: the authentication object has
\* renewed its state, or the refresh failed.
RefreshDone(a) ==
    /\ a \in refreshing
    /\ refreshing' = refreshing \ { a }
    /\ \/ authEpoch' = [ authEpoch EXCEPT ![a] = @ + 1 ]
       \/ UNCHANGED authEpoch
    /\ UNCHANGED << sessions, caches, nHandles, nAuths, tasks, pureVars >>

\* The caller takes the result of a future, or drops the future.
Retire(t) ==
    /\ tasks[t].pc # "idle"
    /\ tasks' = [ tasks EXCEPT ![t] = IdleTask ]
    /\ UNCHANGED << sessions, caches, nHandles, authEpoch, nAuths, refreshing, pureVars >>

(***************************************************************************)
(* The specification of the Session.                                       *)
(***************************************************************************)
NoInput == [ info |-> None, vers |-> NoVers ]

NoOutput == [ op |-> "none", arg |-> None, val |-> None ]

\* No stream and no reader.
NoSource ==
    [ kind |-> "none", items |-> << >>, data |-> << >>, faulty |-> FALSE,
      short |-> FALSE, ended |-> FALSE, sizes |-> << >>, emitted |-> << >>,
      chunks |-> << >>, orig |-> << >> ]

NoReader ==
    [ inner |-> FALSE, chunk |-> << >>, pos |-> 0, pc |-> "idle", n |-> 0,
      bufs |-> { }, created |-> 0, completed |-> 0, polls |-> 0, reads |-> << >> ]

StreamIdle ==
    /\ source = NoSource
    /\ reader = NoReader

\* No RwLock: nothing locked, nothing behind it, no thread at it.
NoLock == [ readers |-> 0, writer |-> FALSE, poisoned |-> FALSE ]

\* No value: the parts of a value are its two halves.
NoValue == [ root |-> 0, vers |-> 0 ]

\* A thread that is in no call.
NoThread ==
    [ pc |-> "idle", api |-> "none", stage |-> "none", op |-> "none", key |-> "none",
      fn |-> "none", value |-> NoValue, held |-> "none",
      seen |-> [ present |-> FALSE, root |-> 0 ],
      called |-> FALSE, ret |-> "none", obs |-> None ]

\* No cache under its lock and no SyncSession.
ExtraIdle ==
    /\ rwlock = NoLock
    /\ store = << >>
    /\ threads = << >>
    /\ runtime = << >>

SessInit ==
    /\ sessions = [ s \in SessionIds |->
                      IF s = 1
                      THEN [ live |-> TRUE, auth |-> 1, cached_info |-> 1,
                             endpoint_interface |-> None ]
                      ELSE NoSession ]
    /\ caches = [ h \in HandleIds |-> EmptyCache ]
    /\ nHandles = 1
    /\ authEpoch = [ a \in AuthIds |-> 0 ]
    /\ nAuths = 1
    /\ tasks = [ t \in TaskIds |-> IdleTask ]
    /\ refreshing = { }

Init ==
    /\ SessInit
    /\ vin = NoInput
    /\ vout = NoOutput
    /\ ExtraIdle
    /\ StreamIdle

Next ==
    \/ SessionNew
    \/ \E s \in SessionIds : Clone(s)
    \/ \E s \in SessionIds : SetAuthType(s)
    \/ \E s \in SessionIds : WithAuthType(s)
    \/ \E s \in SessionIds, i \in Interfaces : SetEndpointInterface(s, i)
    \/ \E s \in SessionIds, i \in Interfaces : WithEndpointInterface(s, i)
    \/ \E s \in SessionIds : Refresh(s)
    \/ \E s \in SessionIds, c \in CallInputs, service \in Services :
            Quiet /\ Call(s, c, service)
    \/ \E t \in TaskIds : EndpointDone(t)
    \/ \E t \in TaskIds : FetchDone(t)
    \/ \E t \in TaskIds : AuthRequest(t)
    \/ \E t \in TaskIds : AuthRequestDone(t)
    \/ \E a \in AuthIds : RefreshDone(a)
    \/ \E t \in TaskIds : Retire(t)

Spec == Init /\ [][Next]_vars

(***************************************************************************)
(* Properties of the Session cache (Spec).                                 *)
(***************************************************************************)
\* The step creates the future in slot t.
Started(t) == tasks[t].pc = "idle" /\ tasks'[t].pc # "idle"

\* A pick_api_version whose candidates are None or an empty collection.
StaticallyEmptyPick(q) ==
    q.op = "pick_api_version" /\ q.vers.items = << >> /\ q.vers.upper = Some(0)

\* The future took the hit branch / the miss branch of extract_service_info.
IsHit(q) == Len(q.trace) >= 2 /\ q.trace[2] = "extract"

IsMiss(q) == q.pc # "idle" /\ Len(q.trace) >= 2 /\ q.trace[2] = "get_endpoint"

\* What the caller gets from a projection of info.
Outcome(q, info) ==
    IF q.op = "supports_api_version"
    THEN IsSome(Project(q, info)) ELSE Project(q, info)

\* The external calls a future makes on a miss, in order.
MissOrder ==
    << "is_set", "get_endpoint", "fetch", "filter", "set", "auth_request",
       "set_headers" >>

\* The step replaces the configuration of session s (set_auth_type,
\* set_endpoint_interface and their with_ forms), as opposed to a refresh.
Reconfigured(s) ==
    /\ Live(s)
    /\ sessions'[s] # sessions[s]
    /\ refreshing' = refreshing

\* C1: a query for a service whose key is set in the Session's handle takes
\* the hit branch: it makes no call of auth.get_endpoint or
\* ServiceInfo::fetch, stores nothing, and resolves to the caller's
\* projection of the cached ServiceInfo.
C1_Step ==
    \A t \in TaskIds :
        /\ ( Started(t)
             /\ IsSet(sessions[tasks'[t].sess].cached_info, tasks'[t].service) )
           => LET q == tasks'[t]
                  entry == caches[sessions[q.sess].cached_info][q.service]
              IN  /\ caches' = caches
                  /\ \A i \in DOMAIN q.trace :
                        q.trace[i] \notin { "get_endpoint", "fetch", "set" }
                  /\ ~StaticallyEmptyPick(q) => q.trace = << "is_set", "extract" >>
                  /\ q.info = None /\ q.ep = None
                  /\ IF q.op = "request"
                     THEN /\ q.pc = "url"
                          /\ q.url = Some(Project(q, Unwrap(entry)))
                     ELSE /\ q.pc = "done"
                          /\ q.result.tag = "ok"
                          /\ q.result.val = Outcome(q, Unwrap(entry))
        /\ IsHit(tasks'[t])
           => /\ \A i \in DOMAIN tasks'[t].trace :
                    tasks'[t].trace[i] \notin { "get_endpoint", "fetch", "set" }
              /\ tasks'[t].info = None
              /\ tasks'[t].ep = None

\* C1: in every step, a query on a cached service makes no call of
\* auth.get_endpoint or ServiceInfo::fetch and resolves to the caller's
\* projection of the cached ServiceInfo.
C1_CacheHit == [][C1_Step]_vars

\* A request on a cached service has gone through: the hit resolved to the
\* URL and the authentication made the request.
C1_Witness ==
    \E t \in TaskIds :
        /\ tasks[t].pc = "done"
        /\ tasks[t].op = "request"
        /\ tasks[t].trace = << "is_set", "extract", "auth_request" >>
        /\ tasks[t].result.tag = "ok"
        /\ IsSet(tasks[t].cached_info, tasks[t].service)

\* C2: after set_auth_type / with_auth_type / set_endpoint_interface /
\* with_endpoint_interface the Session's handle has no key set, so the next
\* query is a miss that asks the Session's new authentication object with
\* the new interface; an entry a query finds in the Session's handle was
\* discovered with the Session's present authentication and interface.
C2_Step ==
    /\ \A s \in SessionIds :
          Reconfigured(s)
          => \A service \in Services :
                caches'[sessions'[s].cached_info][service] = None
    /\ \A t \in TaskIds :
          ( Started(t) /\ ~StaticallyEmptyPick(tasks'[t]) )
          => LET s == tasks'[t].sess
                 service == tasks'[t].service
                 entry == caches[sessions[s].cached_info][service]
                 here == AuthGetEndpoint(sessions[s].auth, service,
                                         sessions[s].endpoint_interface)
             IN  IF IsSome(entry)
                 THEN Unwrap(entry).root_url = here
                 ELSE /\ tasks'[t].pc = "get_endpoint"
                      /\ tasks'[t].auth = sessions[s].auth
                      /\ tasks'[t].endpoint_interface = sessions[s].endpoint_interface
    /\ \A t \in TaskIds :
          ( tasks[t].pc = "get_endpoint" /\ tasks'[t].pc = "fetch" )
          => tasks'[t].ep = Some(AuthGetEndpoint(tasks[t].auth, tasks[t].service,
                                                 tasks[t].endpoint_interface))
    /\ \A t \in TaskIds :
          ( tasks[t].pc = "fetch" /\ IsSome(tasks'[t].info) )
          => Unwrap(tasks'[t].info).root_url = Unwrap(tasks[t].ep)

C3_Step ==
    /\ \A s \in SessionIds :
          Reconfigured(s)
          => /\ caches' = caches
             /\ tasks' = tasks
             /\ \A o \in SessionIds \ { s } :
                   /\ sessions'[o] = sessions[o]
                   /\ Live(o) => sessions[o].cached_info # sessions'[s].cached_info
             /\ \A t \in TaskIds :
                   tasks[t].pc # "idle"
                   => tasks[t].cached_info # sessions'[s].cached_info
    /\ \A t \in TaskIds :
          ( Started(t) /\ IsMiss(tasks'[t]) )
          => tasks'[t].cached_info = sessions[tasks'[t].sess].cached_info
    /\ caches' # caches
       => /\ sessions' = sessions
          /\ \E t \in TaskIds :
                /\ tasks[t].pc = "fetch"
                /\ \A h \in HandleIds, service \in Services :
                      ( h # tasks[t].cached_info \/ service # tasks[t].service )
                      => caches'[h][service] = caches[h][service]

\* C3: in every step, reconfiguring one Session leaves the other Sessions
\* and all cache contents as they are, and a discovery stores only into the
\* handle its query captured.
C3_SetIsolation == [][C3_Step]_vars

\* Session 1 has replaced its authentication after being cloned; the clone
\* keeps the old handle with its entry, and the entry session 1 discovered
\* afterwards is in the new handle only.
C3_Witness ==
    /\ Live(1) /\ Live(2)
    /\ sessions[1].auth = 2 /\ sessions[1].cached_info = 2
    /\ sessions[2].auth = 1 /\ sessions[2].cached_info = 1
    /\ IsSet(1, "compute")
    /\ IsSet(2, "image")
    /\ ~IsSet(1, "image")

\* The step clones a Session into slot d.
Cloned(d) ==
    /\ ~Live(d)
    /\ sessions'[d].live
    /\ nAuths' = nAuths

\* C4: a clone holds the cache handle, the authentication object and the
\* interface of its original; once a miss has stored the ServiceInfo, the
\* entry is what every Session holding that handle finds, and a query for
\* the service through any of them takes the hit branch.
C4_Sharing ==
    \A t \in TaskIds :
        LET q == tasks[t]
        IN  ( q.pc # "idle" /\ IsSome(q.info) )
            => \A s \in SessionIds :
                  ( Live(s) /\ sessions[s].cached_info = q.cached_info )
                  => /\ caches[sessions[s].cached_info][q.service] = q.info
                     /\ \A c \in CallInputs :
                           ~StaticallyEmptyPick(c)
                           => LET f == CallFuture(s, c, q.service)
                              IN  /\ IsHit(f)
                                  /\ f.info = None
                                  /\ IF c.op = "request"
                                     THEN f.url = Some(Project(f, Unwrap(q.info)))
                                     ELSE f.result = Ok(Outcome(f, Unwrap(q.info)))

C4_Step ==
    \A d \in SessionIds :
        Cloned(d)
        => /\ \E s \in SessionIds : Live(s) /\ sessions'[d] = sessions[s]
           /\ caches' = caches
           /\ nHandles' = nHandles

\* C4: every clone step copies the handles of the original, and in every
\* state the entry a miss has stored is what each Session holding the handle
\* hits.
C4_ClonesShare == [][C4_Step]_vars /\ []C4_Sharing

\* A miss issued through one Session has completed, and another Session
\* with the same authentication holds the handle it stored into.
C4_Witness ==
    \E t \in TaskIds, s \in SessionIds :
        /\ tasks[t].pc = "done"
        /\ IsSome(tasks[t].info)
        /\ s # tasks[t].sess
        /\ Live(s) /\ Live(tasks[t].sess)
        /\ sessions[s].cached_info = tasks[t].cached_info
        /\ sessions[tasks[t].sess].cached_info = tasks[t].cached_info
        /\ sessions[s].auth = sessions[tasks[t].sess].auth
        /\ IsSet(sessions[s].cached_info, tasks[t].service)

\* C5: refresh gives the calling Session, and no other, a new empty handle
\* that nobody else holds, changes no cache contents and starts one refresh
\* of the shared authentication object; when that refresh succeeds, the one
\* object every clone holds is renewed once.  The other Sessions keep their
\* handles and the entries in them.
C5_Step ==
    /\ \A a \in refreshing' \ refreshing :
          /\ refreshing' = refreshing \cup { a }
          /\ caches' = caches
          /\ authEpoch' = authEpoch
          /\ tasks' = tasks
          /\ \E s \in SessionIds :
                /\ Live(s)
                /\ sessions[s].auth = a
                /\ sessions'[s].auth = a
                /\ sessions'[s].endpoint_interface = sessions[s].endpoint_interface
                /\ sessions'[s].cached_info # sessions[s].cached_info
                /\ caches'[sessions'[s].cached_info] = EmptyCache
                /\ \A o \in SessionIds \ { s } :
                      /\ sessions'[o] = sessions[o]
                      /\ Live(o) => sessions[o].cached_info # sessions'[s].cached_info
                /\ \A t \in TaskIds :
                      tasks[t].pc # "idle"
                      => tasks[t].cached_info # sessions'[s].cached_info
    /\ \A a \in refreshing \ refreshing' :
          /\ refreshing' = refreshing \ { a }
          /\ sessions' = sessions
          /\ caches' = caches
          /\ authEpoch'[a] \in { authEpoch[a], authEpoch[a] + 1 }
          /\ \A b \in AuthIds \ { a } : authEpoch'[b] = authEpoch[b]

\* C5: in every step, refresh replaces the handle of the calling Session
\* only and starts one refresh of the shared authentication object; the
\* other Sessions keep their handles and entries.
C5_RefreshIsolation == [][C5_Step]_vars

\* Session 1 has refreshed after being cloned and the refresh has
\* completed: both hold the renewed authentication object, session 1 a new
\* handle, the clone the old handle with its entry.
C5_Witness ==
    /\ Live(1) /\ Live(2)
    /\ sessions[1].auth = 1 /\ sessions[2].auth = 1
    /\ sessions[1].endpoint_interface = None
    /\ sessions[2].endpoint_interface = None
    /\ sessions[1].cached_info = 2 /\ sessions[2].cached_info = 1
    /\ authEpoch[1] = 1
    /\ 1 \notin refreshing
    /\ IsSet(1, "compute")
    /\ ~IsSet(2, "compute")

\* C6: a miss calls auth.get_endpoint, then ServiceInfo::fetch on the
\* endpoint it returned, then the projection, then MapCache::set, and then
\* resolves to the projection of the fetched info; the key is set in the
\* handle the Session held when the query was issued.
C6_MissOrder ==
    \A t \in TaskIds :
        LET q == tasks[t]
        IN  IsMiss(q)
            => /\ Len(q.trace) <= Len(MissOrder)
               /\ q.trace = SubSeq(MissOrder, 1, Len(q.trace))
               /\ q.pc = "get_endpoint" => Len(q.trace) = 2 /\ q.ep = None
               /\ q.pc = "fetch"
                  => /\ Len(q.trace) = 3
                     /\ q.ep = Some(AuthGetEndpoint(q.auth, q.service,
                                                    q.endpoint_interface))
               /\ IsSome(q.info) <=> Len(q.trace) >= 5
               /\ IsSome(q.info)
                  => /\ Unwrap(q.info).root_url = Unwrap(q.ep)
                     /\ caches[q.cached_info][q.service] = q.info
                     /\ IF q.op = "request"
                        THEN q.url = Some(Project(q, Unwrap(q.info)))
                        ELSE /\ q.pc = "done"
                             /\ q.result.tag = "ok"
                             /\ q.result.val = Outcome(q, Unwrap(q.info))

C6_Step ==
    /\ \A t \in TaskIds :
          ( Started(t) /\ tasks'[t].pc = "get_endpoint" )
          => /\ tasks'[t].cached_info = sessions[tasks'[t].sess].cached_info
             /\ tasks'[t].trace = << "is_set", "get_endpoint" >>
             /\ ~IsSet(tasks'[t].cached_info, tasks'[t].service)
    /\ C6_MissOrder'

\* C6: in every step, a miss captures the Session's handle at the call and
\* its calls follow the order get_endpoint, fetch, projection, set, with the
\* entry stored in the captured handle.
C6_MissSequence == [][C6_Step]_vars

\* A miss has completed after its Session replaced the handle: the entry is
\* in the handle the query captured, not in the one the Session holds now.
C6_Witness ==
    \E t \in TaskIds :
        LET q == tasks[t]
        IN  /\ q.pc = "done"
            /\ q.result.tag = "ok"
            /\ q.trace = SubSeq(MissOrder, 1, 5)
            /\ Live(q.sess)
            /\ sessions[q.sess].cached_info # q.cached_info
            /\ IsSet(q.cached_info, q.service)
            /\ ~IsSet(sessions[q.sess].cached_info, q.service)

\* C7: pick_api_version with None or an empty collection of candidates
\* resolves to None at once, without a cache lookup, an authentication call
\* or a discovery, whether the service is cached or not.
C7_EmptyPick ==
    \A t \in TaskIds :
        LET q == tasks[t]
        IN  ( q.pc # "idle" /\ StaticallyEmptyPick(q) )
            => /\ q.pc = "done"
               /\ q.result.tag = "ok"
               /\ q.result.val = None
               /\ q.trace = << >>
               /\ q.info = None

\* An empty pick_api_version has resolved on a Session whose handle holds
\* the entry of the service.
C7_Witness ==
    \E t \in TaskIds :
        /\ tasks[t].pc = "done"
        /\ StaticallyEmptyPick(tasks[t])
        /\ Live(tasks[t].sess)
        /\ IsSet(sessions[tasks[t].sess].cached_info, tasks[t].service)

(***************************************************************************)
(* Properties of Session::request (Spec).                                  *)
(***************************************************************************)
\* How often a call occurs in the calls a future has made.
Count(trace, call) == Cardinality({ i \in DOMAIN trace : trace[i] = call })

\* The calls of the endpoint resolution of a request: a hit or a miss.
Resolution(q) == IF IsHit(q) THEN << "is_set", "extract" >> ELSE SubSeq(MissOrder, 1, 5)

\* C12: a request resolves the endpoint first, then calls auth.request with
\* its method and the resolved URL, then stamps the version headers:
\* set_api_version_headers is called once when an api_version was given and
\* not at all when it is None, and then the builder of auth.request is the
\* result as it is.
C12_RequestOrder ==
    \A t \in TaskIds :
        LET q == tasks[t]
        IN  ( q.op = "request" /\ q.pc # "idle" )
            => /\ Count(q.trace, "auth_request") <= 1
               /\ Count(q.trace, "set_headers")
                     <= IF q.version = None THEN 0 ELSE 1
               /\ Count(q.trace, "auth_request") = 1
                  => /\ IsSome(q.url)
                     /\ IsSome(caches[q.cached_info][q.service])
                     /\ SubSeq(q.trace, 1, Len(Resolution(q)) + 1)
                           = Resolution(q) \o << "auth_request" >>
               /\ Count(q.trace, "set_headers") = 1
                  => q.trace = Resolution(q) \o << "auth_request", "set_headers" >>
               /\ ( q.pc = "done" /\ q.result.tag = "ok" )
                  => LET scaffold == AuthRequestBuilder(q.auth, q.method, Unwrap(q.url))
                     IN  /\ Count(q.trace, "auth_request") = 1
                         /\ IF q.version = None
                            THEN q.result.val = scaffold
                            ELSE /\ Count(q.trace, "set_headers") = 1
                                 /\ q.result.val
                                       = [ scaffold EXCEPT !.headers = q.version ]

\* A request with an api_version has completed on a service that was not
\* cached: discovery, auth.request and the headers, in this order.
C12_Witness ==
    \E t \in TaskIds :
        /\ tasks[t].pc = "done"
        /\ tasks[t].op = "request"
        /\ tasks[t].result.tag = "ok"
        /\ tasks[t].version # None
        /\ tasks[t].trace = MissOrder

\* C13: when the service descriptor rejects the version of a request, the
\* request fails with that error and yields no builder, so nothing is sent;
\* the rejection follows the endpoint resolution and auth.request: on a
\* cached service no discovery has been made, on a service not yet cached
\* auth.get_endpoint and ServiceInfo::fetch have run and the info is cached.
C13_RejectedVersion ==
    \A t \in TaskIds :
        LET q == tasks[t]
        IN  ( q.op = "request" /\ q.verdict = "rejected" )
            => /\ q.pc = "done"
               /\ q.result.tag = "err"
               /\ q.result.val = "version"
               /\ q.version # None
               /\ q.trace = Resolution(q) \o << "auth_request", "set_headers" >>
               /\ IsHit(q) => ( Count(q.trace, "get_endpoint") = 0
                                /\ Count(q.trace, "fetch") = 0 )
               /\ IsMiss(q) => ( Count(q.trace, "fetch") = 1
                                 /\ IsSome(q.info)
                                 /\ IsSet(q.cached_info, q.service) )

\* The version of a request on a service that was not cached has been
\* rejected: the discovery fetch has been made by then.
C13_Witness ==
    \E t \in TaskIds :
        /\ tasks[t].op = "request"
        /\ tasks[t].verdict = "rejected"
        /\ tasks[t].trace = MissOrder
        /\ tasks[t].result.tag = "err"

\* C13 as stated: a rejected version means that the request call has made
\* no network call, whether the service was cached or not.
C13_NoNetworkCall ==
    \A t \in TaskIds :
        ( tasks[t].op = "request" /\ tasks[t].verdict = "rejected" )
        => /\ Count(tasks[t].trace, "get_endpoint") = 0
           /\ Count(tasks[t].trace, "fetch") = 0

(***************************************************************************)
(* The version helpers on their own: the inputs are drawn in the initial   *)
(* state, and every action applies one helper to them.                     *)
(***************************************************************************)
\* The candidates of test_pick_api_version.
TestCandidates == << <<2, 0>>, <<2, 2>>, <<2, 4>>, <<2, 99>> >>

\* The ServiceInfo values a discovery may have cached.
PureInfos ==
    { ServiceInfo(AuthGetEndpoint(1, "compute", None), major, min, cur) :
        major \in { None, Some(MAJOR_VERSION) }, min \in OptVersion, cur \in OptVersion }

\* The candidate iterators: a Vec, a slice or an Option (the size hint is
\* exact), and iterators that are empty although their size hint does not
\* say so (one with the upper bound 1, one without an upper bound).
PureIters ==
    { [ items |-> q, upper |-> Some(Len(q)) ] :
        q \in UNION { [ 1..k -> VersionDomain ] : k \in 0..MaxCands }
                \cup { TestCandidates } }
    \cup { [ items |-> << >>, upper |-> Some(1) ], [ items |-> << >>, upper |-> None ] }

VersInit ==
    /\ SessInit
    /\ vin \in [ info : PureInfos, vers : PureIters ]
    /\ vout = NoOutput
    /\ ExtraIdle
    /\ StreamIdle

ApplyPickApiVersion ==
    /\ vout.op = "none"
    /\ vout' = [ op |-> "pick_api_version", arg |-> None,
                 val |-> PickApiVersion(vin.info, vin.vers) ]
    /\ UNCHANGED << sessVars, vin, streamVars, extraVars >>

ApplySupportsApiVersion(version) ==
    /\ vout.op = "none"
    /\ vout' = [ op |-> "supports_api_version", arg |-> Some(version),
                 val |-> SupportsApiVersion(vin.info, version) ]
    /\ UNCHANGED << sessVars, vin, streamVars, extraVars >>

ApplyGetApiVersions ==
    /\ vout.op = "none"
    /\ vout' = [ op |-> "get_api_versions", arg |-> None,
                 val |-> GetApiVersionsFilter(vin.info) ]
    /\ UNCHANGED << sessVars, vin, streamVars, extraVars >>

ApplyGetMajorVersion ==
    /\ vout.op = "none"
    /\ vout' = [ op |-> "get_major_version", arg |-> None,
                 val |-> GetMajorVersionFilter(vin.info) ]
    /\ UNCHANGED << sessVars, vin, streamVars, extraVars >>

VersNext ==
    \/ ApplyPickApiVersion
    \/ \E version \in VersionDomain : ApplySupportsApiVersion(version)
    \/ ApplyGetApiVersions
    \/ ApplyGetMajorVersion

SpecVersions == VersInit /\ [][VersNext]_vars

(***************************************************************************)
(* Properties of the version helpers (SpecVersions).                       *)
(***************************************************************************)
HasRange(info) == IsSome(info.minimum_version) /\ IsSome(info.current_version)

InRange(info, v) ==
    /\ VersionLe(Unwrap(info.minimum_version), v)
    /\ VersionLe(v, Unwrap(info.current_version))

\* The candidates the ServiceInfo supports.
SupportedCandidates(info, items) ==
    { items[i] : i \in { j \in DOMAIN items : ServiceInfoSupports(info, items[j]) } }

TestRange(info) ==
    /\ info.minimum_version = Some(MIN_VERSION)
    /\ info.current_version = Some(MAX_VERSION)

\* C8: pick_api_version returns the maximum, in the (major, minor) order,
\* of the candidates the ServiceInfo supports, and no version when none is
\* supported; the range [2.1, 2.42] gives 2.4 for {2.0, 2.2, 2.4, 2.99} and
\* no version for {2.0, 2.99}.
C8_PickIsMaxSupported ==
    vout.op = "pick_api_version" =>
        LET supported == SupportedCandidates(vin.info, vin.vers.items)
        IN  /\ supported = { } => vout.val = None
            /\ supported # { } =>
                  /\ IsSome(vout.val)
                  /\ Unwrap(vout.val) \in supported
                  /\ \A w \in supported : VersionLe(w, Unwrap(vout.val))
            /\ TestRange(vin.info) /\ vin.vers.items = TestCandidates
                  => vout.val = Some(<<2, 4>>)
            /\ TestRange(vin.info) /\ vin.vers.items = << <<2, 0>>, <<2, 99>> >>
                  => vout.val = None

\* The pick of test_pick_api_version has been made.
C8_Witness ==
    /\ vout.op = "pick_api_version"
    /\ TestRange(vin.info)
    /\ vin.vers.items = TestCandidates
    /\ vout.val = Some(<<2, 4>>)

\* C9: supports_api_version(v) is true exactly when pick_api_version over
\* the single candidate v returns v: when v lies within [minimum, current],
\* and always when the service publishes no microversion range.
C9_SupportsIffPickReturnsIt ==
    vout.op = "supports_api_version" =>
        LET v == Unwrap(vout.arg)
        IN  /\ vout.val =
                 (PickApiVersion(vin.info, [ items |-> << v >>, upper |-> Some(1) ])
                    = Some(v))
            /\ HasRange(vin.info) => (vout.val = InRange(vin.info, v))
            /\ ~HasRange(vin.info) => (vout.val = TRUE)

\* A version within the published range has been found supported.
C9_Witness ==
    /\ vout.op = "supports_api_version"
    /\ HasRange(vin.info)
    /\ InRange(vin.info, Unwrap(vout.arg))
    /\ vout.val = TRUE

\* C10: get_api_versions returns Some((minimum, current)) exactly when both
\* are present and no version otherwise; get_major_version returns the
\* major version of the ServiceInfo as it is.
C10_ApiVersionsAndMajor ==
    /\ vout.op = "get_api_versions" =>
          IF HasRange(vin.info)
          THEN vout.val = Some(<< Unwrap(vin.info.minimum_version),
                                  Unwrap(vin.info.current_version) >>)
          ELSE vout.val = None
    /\ vout.op = "get_major_version" => vout.val = vin.info.major_version

\* get_api_versions on a ServiceInfo with a minimum and no current version.
C10_Witness ==
    /\ vout.op = "get_api_versions"
    /\ IsSome(vin.info.minimum_version)
    /\ vin.info.current_version = None
    /\ vout.val = None

(***************************************************************************)
(* get_endpoint on its own: a cached ServiceInfo and a path are drawn in   *)
(* the initial state, and the action applies the closure of get_endpoint.  *)
(***************************************************************************)
MaxPath == 3

\* Path segments handed to get_endpoint.
UrlSegments == { "", "v2", "servers", "a/b" }

UrlPaths == UNION { [ 1..k -> UrlSegments ] : k \in 0..MaxPath }

\* Root URLs a discovery may have cached: http://host/ and http://host/compute/.
UrlRoots ==
    { [ AuthGetEndpoint(a, service, i) EXCEPT !.path = p ] :
        a \in 1..2, service \in Services, i \in { None, Some("public") },
        p \in { << "" >>, << "compute", "" >> } }

UrlInit ==
    /\ SessInit
    /\ vin \in [ info : { ServiceInfo(root, None, None, None) : root \in UrlRoots },
                 path : UrlPaths ]
    /\ vout = NoOutput
    /\ ExtraIdle
    /\ StreamIdle

\* get_endpoint on a cached service: MapCache::extract hands the closure a
\* shared reference to the cached ServiceInfo.
ApplyGetEndpoint ==
    /\ vout.op = "none"
    /\ vout' = [ op |-> "get_endpoint", arg |-> None,
                 val |-> GetEndpointFilter(vin.info, vin.path) ]
    /\ UNCHANGED << sessVars, vin, streamVars, extraVars >>

UrlNext == ApplyGetEndpoint

SpecUrl == UrlInit /\ [][UrlNext]_vars

\* The segments of the root URL that a path is appended to.
RootSegments(root) == UrlPopIfEmpty(root.path)

C11_Step ==
    vout'.op = "get_endpoint"
    => LET root == vin.info.root_url
           base == RootSegments(root)
           url == vout'.val
       IN  /\ vin' = vin
           /\ url.auth = root.auth
           /\ url.service = root.service
           /\ url.interface = root.interface
           /\ Len(vin.path) >= 1
              => /\ Len(url.path) = Len(base) + Len(vin.path)
                 /\ \A i \in 1..Len(base) : url.path[i] = base[i]
                 /\ \A i \in 1..Len(vin.path) :
                       url.path[Len(base) + i] = UrlEscape(vin.path[i])
           /\ vin.path = << "" >> => url = root
           /\ ( root.path = << "" >> /\ vin.path = << "v2", "servers" >> )
              => url.path = << "v2", "servers" >>

MaxReads == 5

MaxChunks == 3

MaxBodyChunks == 2

MaxThreads == 2

MaxValues == 2

MaxRefresh == 3

\* The buffer size of SyncBody::poll.
BodyChunkSize == 16384

Min(a, b) == IF a <= b THEN a ELSE b

\* Concatenation of a sequence of byte sequences.
RECURSIVE Concat(_)
Concat(seqs) == IF seqs = << >> THEN << >> ELSE Head(seqs) \o Concat(Tail(seqs))

\* A cursor that hands out all it has left, whatever the buffer holds.
CursorReadAll(chunk, pos, n) == SubSeq(chunk, pos + 1, Len(chunk))

\* A cursor that reads from the start of the chunk again.
CursorReadFromStart(chunk, pos, n) == SubSeq(chunk, 1, Min(n, Len(chunk) - pos))

\* io::Cursor::read: up to n bytes from position pos of the chunk.
CursorRead(chunk, pos, n) ==
    SubSeq(chunk, pos + 1, pos + Min(n, Len(chunk) - pos))

\* The sizes a read of the blocking source may return short of the buffer.
ShortReads == { 1, 16383 }

\* A body that emits the whole buffer whatever the read returned.
TruncateNever(buffer, size) == buffer

\* Vec::truncate: the first size bytes of the buffer.
Truncate(buffer, size) == SubSeq(buffer, 1, size)

\* SyncBody::poll: one read of the source into a zeroed buffer of 16384 bytes,
\* the buffer truncated to what was read as the next chunk, the end of the
\* stream when nothing was read, or the error of the source. A source that
\* reads short may return fewer bytes than the buffer holds and it has left.
SyncBodyPoll(src) ==
    LET full == Min(BodyChunkSize, Len(src.data))
        sizes == { full } \cup IF src.short THEN { k \in ShortReads : k < full }
                               ELSE { }
        buffer(size) == [ i \in 1..BodyChunkSize |->
                            IF i <= size THEN src.data[i] ELSE 0 ]
    IN  { [ tag |-> IF size > 0 THEN "chunk" ELSE "end",
            data |-> IF size > 0 THEN Truncate(buffer(size), size) ELSE << >>,
            next |-> [ src EXCEPT
                         !.data = SubSeq(@, size + 1, Len(@)),
                         !.ended = (size = 0),
                         !.sizes = Append(@, size),
                         !.emitted = IF size > 0
                                     THEN Append(@, Truncate(buffer(size), size))
                                     ELSE @ ] ] : size \in sizes }
        \cup IF src.faulty
             THEN { [ tag |-> "error", data |-> << >>, next |-> src ] }
             ELSE { }

\* Stream::poll of a stream that yields its items in order.
IterPoll(src) ==
    IF src.items = << >>
    THEN { [ tag |-> "end", data |-> << >>, next |-> [ src EXCEPT !.ended = TRUE ] ] }
    ELSE { [ tag |-> Head(src.items).tag, data |-> Head(src.items).data,
             next |-> [ src EXCEPT
                          !.items = Tail(@),
                          !.emitted = IF Head(src.items).tag = "chunk"
                                      THEN Append(@, Head(src.items).data)
                                      ELSE @ ] ] }

\* The outcomes of driving the StreamFuture to completion.
StreamPoll(src) == IF src.kind = "body" THEN SyncBodyPoll(src) ELSE IterPoll(src)

\* A reader that keeps a chunk request whatever the stream returned.
InnerAfterAlways(tag) == TRUE

\* SyncStream::read: self.inner is set again, to the future of the rest of
\* the stream, only when a chunk was received.
InnerAfter(tag) == tag = "chunk"

\* The read in progress returns: its buffer size and what it read.
Returned(r, tag, data) ==
    [ r EXCEPT !.pc = "idle",
               !.reads = Append(@, [ n |-> r.n, tag |-> tag, data |-> data ]) ]

\* SyncStream::read up to the point where it blocks: the bytes left in the
\* cursor, or the chunk request taken and driven, or nothing.
Read(n) ==
    /\ source.kind # "none"
    /\ reader.pc = "idle"
    /\ n \in reader.bufs
    /\ Len(reader.reads) < MaxReads
    /\ LET r == [ reader EXCEPT !.n = n ]
           existing == CursorRead(reader.chunk, reader.pos, n)
       IN  reader' =
             IF Len(existing) > 0
             THEN Returned([ r EXCEPT !.pos = @ + Len(existing) ], "ok", existing)
             ELSE IF reader.inner
                  THEN [ r EXCEPT !.inner = FALSE, !.pc = "blocked", !.polls = @ + 1 ]
                  ELSE Returned(r, "ok", << >>)
    /\ UNCHANGED << sessVars, vin, vout, source, extraVars >>

\* A read that returns whatever it read from the new chunk.
ChunkReturnsAlways(result) == TRUE

\* if result > 0 { return Ok(result); }: the read returns with the bytes of
\* the new chunk when there are some, and loops on otherwise.
ChunkReturns(result) == Len(result) > 0

\* What read does with the outcome o of block_on.
ReadResume(o) ==
    LET r == [ reader EXCEPT
                 !.inner = InnerAfter(o.tag),
                 !.completed = @ + 1,
                 !.created = IF InnerAfter(o.tag) THEN @ + 1 ELSE @ ]
        result == CursorRead(o.data, 0, reader.n)
    IN  CASE o.tag = "chunk" ->
               IF ChunkReturns(result)
               THEN Returned([ r EXCEPT !.chunk = o.data, !.pos = Len(result) ],
                             "ok", result)
               \* nothing read from the new chunk: the loop goes on, finds the
               \* cursor empty and takes the new chunk request
               ELSE [ r EXCEPT !.chunk = o.data, !.pos = 0,
                               !.inner = FALSE, !.polls = @ + 1 ]
          [] o.tag = "end" -> Returned(r, "ok", << >>)
          [] o.tag = "error" -> Returned(r, "err", << >>)

\* block_on returns with the next chunk.
ChunkReady ==
    /\ reader.pc = "blocked"
    /\ \E o \in StreamPoll(source) :
          /\ o.tag = "chunk"
          /\ source' = o.next
          /\ reader' = ReadResume(o)
    /\ UNCHANGED << sessVars, vin, vout, extraVars >>

\* block_on returns with the end of the stream.
StreamEnd ==
    /\ reader.pc = "blocked"
    /\ \E o \in StreamPoll(source) :
          /\ o.tag = "end"
          /\ source' = o.next
          /\ reader' = ReadResume(o)
    /\ UNCHANGED << sessVars, vin, vout, extraVars >>

\* block_on returns with the error of the stream.
StreamError ==
    /\ reader.pc = "blocked"
    /\ \E o \in StreamPoll(source) :
          /\ o.tag = "error"
          /\ source' = o.next
          /\ reader' = ReadResume(o)
    /\ UNCHANGED << sessVars, vin, vout, extraVars >>

StreamNext ==
    \/ \E n \in reader.bufs : Read(n)
    \/ ChunkReady
    \/ StreamEnd
    \/ StreamError

\* SyncStream::new: the first chunk request and an empty cursor.
NewReader(bufs) ==
    [ NoReader EXCEPT !.inner = TRUE, !.created = 1, !.bufs = bufs ]

\* Chunks of the given lengths holding the bytes 1, 2, 3, ... in order.
RECURSIVE ChunksFrom(_, _)
ChunksFrom(lens, first) ==
    IF lens = << >> THEN << >>
    ELSE << [ tag |-> "chunk",
              data |-> [ i \in 1..Head(lens) |-> first + i - 1 ] ] >>
         \o ChunksFrom(Tail(lens), first + Head(lens))

ChunkLens == { 0, 1, 3, 4 }

\* The buffers handed to read.
BufSizes == { 0, 1, 3 }

\* The streams read in SpecStream: chunk sequences, which end or fail.
IterSources ==
    { [ NoSource EXCEPT
          !.kind = "iter",
          !.items = ChunksFrom(lens, 1)
                       \o IF faulty THEN << [ tag |-> "error", data |-> << >> ] >>
                          ELSE << >>,
          !.faulty = faulty,
          !.chunks = [ i \in 1..Len(lens) |-> ChunksFrom(lens, 1)[i].data ],
          !.orig = Concat([ i \in 1..Len(lens) |-> ChunksFrom(lens, 1)[i].data ]) ] :
        lens \in UNION { [ 1..k -> ChunkLens ] : k \in 0..MaxChunks },
        faulty \in BOOLEAN }

StreamInit ==
    /\ SessInit
    /\ vin = NoInput
    /\ vout = NoOutput
    /\ ExtraIdle
    /\ source \in IterSources
    /\ reader = NewReader(BufSizes)

SpecStream == StreamInit /\ [][StreamNext]_vars

(***************************************************************************)
(* Properties of SyncStream (SpecStream).                                  *)
(***************************************************************************)
\* The step makes a read return.
ReadReturns == Len(reader'.reads) = Len(reader.reads) + 1

LastRead(r) == r.reads[Len(r.reads)]

\* The bytes the reads have returned, read by read.
ReadData(r) == [ i \in 1..Len(r.reads) |-> r.reads[i].data ]

\* The chunk a returning read takes its bytes from, and the position in it:
\* the chunk just received, or else the one in the cursor.
CurrentChunk ==
    IF Len(source'.emitted) > Len(source.emitted)
    THEN [ chunk |-> source'.emitted[Len(source'.emitted)], pos |-> 0 ]
    ELSE [ chunk |-> reader.chunk, pos |-> reader.pos ]

C14_Step ==
    ( ReadReturns /\ LastRead(reader').n >= 1 /\ LastRead(reader').tag = "ok" )
    => LET rec == LastRead(reader')
           cur == CurrentChunk
       IN  /\ Len(rec.data) = Min(rec.n, Len(cur.chunk) - cur.pos)
           /\ \A i \in 1..Len(rec.data) : rec.data[i] = cur.chunk[cur.pos + i]
           /\ Len(rec.data) > 0
              => \E c \in 1..Len(source'.emitted) : source'.emitted[c] = cur.chunk

\* test_stream_parts: the chunks [1,2,3], [4], [5,6,7,8] read through a
\* buffer of 3 bytes.
C14_Parts ==
    ( /\ source.chunks = << <<1, 2, 3>>, <<4>>, <<5, 6, 7, 8>> >>
      /\ ~source.faulty
      /\ \A i \in 1..Len(reader.reads) : reader.reads[i].n = 3 )
    => ReadData(reader)
          = SubSeq(<< <<1, 2, 3>>, <<4>>, <<5, 6, 7>>, <<8>>, << >> >>,
                   1, Len(reader.reads))

\* C14: a read with a buffer of n >= 1 bytes returns min(n, unread bytes of
\* the current chunk) bytes, all from that one chunk and in its order; the
\* chunks [1,2,3], [4], [5,6,7,8] through a 3-byte buffer give 1,2,3 / 4 /
\* 5,6,7 / 8 and then nothing.
C14_ReadOneChunk == [][C14_Step]_vars /\ []C14_Parts

\* The five reads of test_stream_parts have been made.
C14_Witness ==
    /\ source.chunks = << <<1, 2, 3>>, <<4>>, <<5, 6, 7, 8>> >>
    /\ ReadData(reader) = << <<1, 2, 3>>, <<4>>, <<5, 6, 7>>, <<8>>, << >> >>
    /\ \A i \in 1..Len(reader.reads) : reader.reads[i].n = 3

\* The reads made so far were all made with a non-empty buffer.
NonEmptyBuffers(r) == \A i \in 1..Len(r.reads) : r.reads[i].n >= 1

\* The index of the first read that returned no bytes (0: none has).
FirstZeroRead(r) ==
    IF \E i \in 1..Len(r.reads) : r.reads[i].tag = "ok" /\ r.reads[i].data = << >>
    THEN CHOOSE i \in 1..Len(r.reads) :
            /\ r.reads[i].tag = "ok" /\ r.reads[i].data = << >>
            /\ \A j \in 1..(i - 1) :
                  ~( r.reads[j].tag = "ok" /\ r.reads[j].data = << >> )
    ELSE 0

\* C15: read with non-empty buffers from a stream that does not fail, the
\* bytes returned so far are the stream's bytes from the start on, in order
\* and each once, and by the first read that returns nothing they are the
\* concatenation of all chunks; a stream without chunks gives a
\* zero-length read at once.
C15_Concatenation ==
    ( source.kind = "iter" /\ ~source.faulty /\ NonEmptyBuffers(reader) )
    => LET z == FirstZeroRead(reader)
           upto == IF z = 0 THEN Len(reader.reads) ELSE z - 1
           bytes == Concat(SubSeq(ReadData(reader), 1, upto))
       IN  /\ Len(bytes) <= Len(source.orig)
           /\ bytes = SubSeq(source.orig, 1, Len(bytes))
           /\ z # 0 => bytes = source.orig
           /\ ( source.chunks = << >> /\ Len(reader.reads) >= 1 ) => z = 1

\* The chunks [1,2,3], [], [4] have been read to the end through a buffer
\* of one byte.
C15_Witness ==
    /\ source.chunks = << <<1, 2, 3>>, << >>, <<4>> >>
    /\ ~source.faulty
    /\ FirstZeroRead(reader) = 5
    /\ \A i \in 1..Len(reader.reads) : reader.reads[i].n = 1
    /\ Concat(ReadData(reader)) = <<1, 2, 3, 4>>

C16_Step ==
    /\ source.ended
       => /\ reader'.polls = reader.polls
          /\ reader'.pc = "idle"
          /\ ReadReturns => LastRead(reader').data = << >>
    /\ ( ReadReturns /\ FirstZeroRead(reader) # 0 )
       => LastRead(reader').data = << >>

\* C16: once the stream has signalled its end, every read returns no bytes
\* and neither polls the stream nor blocks on the executor; and no read
\* returns bytes after a read has returned none, whatever the sequence of
\* reads and the sizes of their buffers.
C16_EndIsTerminal == [][C16_Step]_vars

\* The chunk requests created and not yet completed.
Outstanding(r) == r.created - r.completed

\* C17: the reader holds at most one outstanding chunk request at any time: it
\* is either kept in self.inner or being driven by the read in progress, never
\* both. A new request is created only after the previous one completed with
\* a chunk (so the requests created are the first one plus one per chunk
\* received), and none is created or held after end-of-data.
C17_OneOutstandingRequest ==
    /\ Outstanding(reader) \in { 0, 1 }
    /\ ~( reader.inner /\ reader.pc = "blocked" )
    /\ ( Outstanding(reader) = 1 ) <=> ( reader.inner \/ reader.pc = "blocked" )
    /\ reader.created = 1 + Len(source.emitted)
    /\ source.ended => ( Outstanding(reader) = 0 /\ ~reader.inner )

\* Two chunks were received, each followed by a new request, and the third
\* request completed with end-of-data.
C17_Witness ==
    /\ source.ended
    /\ Len(source.emitted) = 2
    /\ reader.created = 3
    /\ reader.completed = 3
    /\ ~reader.inner

(***************************************************************************)
(* SyncBody: a blocking byte source as a stream of chunks, read back       *)
(* through a SyncStream.                                                   *)
(***************************************************************************)
\* The lengths of the sources: around the multiples of the buffer size.
BodyLens ==
    { 0, 1, BodyChunkSize, BodyChunkSize + 1, MaxBodyChunks * BodyChunkSize + 1 }

\* The bytes of a source of the given length.
BodyData(len) == [ i \in 1..len |-> i % 251 ]

\* The buffers handed to read on a SyncStream over a SyncBody.
BodyBufs == { BodyChunkSize - 1, 4 * BodyChunkSize }

\* SyncBody::new over sources that fill the buffer or read short, and that
\* end or may fail.
BodySources ==
    { [ NoSource EXCEPT
          !.kind = "body",
          !.data = BodyData(len),
          !.orig = BodyData(len),
          !.short = short,
          !.faulty = faulty ] :
        len \in BodyLens, short \in BOOLEAN, faulty \in BOOLEAN }

BodyInit ==
    /\ SessInit
    /\ vin = NoInput
    /\ vout = NoOutput
    /\ ExtraIdle
    /\ source \in BodySources
    /\ reader = NewReader(BodyBufs)

SpecBody == BodyInit /\ [][StreamNext]_vars

(***************************************************************************)
(* Claims on SyncBody (SpecBody).                                          *)
(***************************************************************************)
\* C18: SyncBody turns every read of the source into one chunk: the emitted
\* chunks are, in order, the non-zero results of the reads into the 16384-byte
\* buffer, so each has between 1 and 16384 bytes and none is empty, and
\* together with what the source has left they are the bytes of the source.
\* The end of the stream is signalled exactly when a read returned zero. When
\* the source fills the buffer on every read, every chunk other than possibly
\* the last has exactly 16384 bytes.
C18_BodyChunks ==
    LET e == source.emitted
        z == source.sizes
    IN  /\ \A i \in 1..Len(e) : Len(e[i]) \in 1..BodyChunkSize
        /\ Len(z) = Len(e) + IF source.ended THEN 1 ELSE 0
        /\ \A i \in 1..Len(e) : Len(e[i]) = z[i]
        /\ source.ended <=> ( z # << >> /\ z[Len(z)] = 0 )
        /\ Concat(e) \o source.data = source.orig
        /\ ~source.short
           => \A i \in 1..Len(e) :
                 \/ Len(e[i]) = BodyChunkSize
                 \/ i = Len(e) /\ source.data = << >>

\* A source that reads short was read to its end in chunks of 1, 16383 and 1
\* bytes.
C18_Witness ==
    /\ source.kind = "body"
    /\ source.short
    /\ source.ended
    /\ source.sizes = << 1, BodyChunkSize - 1, 1, 0 >>
    /\ Len(source.emitted) = 3

\* C18 as stated: for every blocking byte source, every emitted chunk other
\* than possibly the last has exactly 16384 bytes, and none is empty.
C18_FixedSizeChunks ==
    /\ \A i \in 1..(Len(source.emitted) - 1) :
          Len(source.emitted[i]) = BodyChunkSize
    /\ \A i \in 1..Len(source.emitted) : source.emitted[i] # << >>

\* No read has failed.
NoReadError(r) == \A i \in 1..Len(r.reads) : r.reads[i].tag = "ok"

\* C19: reading a SyncBody back through a SyncStream returns the bytes of the
\* source: as long as no read fails, the bytes read so far are a prefix of
\* the source, and once a read returned zero bytes they are all of the
\* source, with the same length.
C19_RoundTrip ==
    ( source.kind = "body" /\ NoReadError(reader) )
    => LET z == FirstZeroRead(reader)
           upto == IF z = 0 THEN Len(reader.reads) ELSE z - 1
           bytes == Concat(SubSeq(ReadData(reader), 1, upto))
       IN  /\ Len(bytes) <= Len(source.orig)
           /\ bytes = SubSeq(source.orig, 1, Len(bytes))
           /\ z # 0 => ( bytes = source.orig /\ Len(bytes) = Len(source.orig) )

\* The longest source was read to its end by reads that each took a whole
\* chunk, followed by one that returned zero bytes.
C19_Witness ==
    /\ source.kind = "body"
    /\ Len(source.orig) = MaxBodyChunks * BodyChunkSize + 1
    /\ NoReadError(reader)
    /\ FirstZeroRead(reader) = MaxBodyChunks + 2
    /\ Concat(ReadData(reader)) = source.orig

(***************************************************************************)
(* The synchronous bridge: every operation of a SyncSession next to the    *)
(* same operation of a Session in the same state.  Session 1 is the        *)
(* Session, whose future (task 1) its caller drives; session 2 is the      *)
(* inner Session of the SyncSession, whose future (task 2) block_on        *)
(* drives.                                                                 *)
(***************************************************************************)
\* The handles of the two sessions and those their refreshes create.
SyncHandles == MaxHandles + 2

\* The operations of the bridge: the queries of the Session, and refresh.
SyncInputs ==
    CallInputs
    \cup { [ op |-> "refresh", vers |-> NoVers, path |-> << >>, version |-> None,
             method |-> "none" ] }

\* The cache the two sessions start with, each in a MapCache of its own:
\* empty, or holding the compute service as a fetch has left it.
StartCaches(interface) ==
    { EmptyCache }
    \cup { [ EmptyCache EXCEPT
               !["compute"] =
                  Some(ServiceInfoFetch(AuthGetEndpoint(1, "compute", interface), v)) ] :
           v \in FetchedVersions }

\* SyncSession::new over a Session in the state of session 1.  The queries
\* only read the authentication object, which the two sessions share;
\* refresh changes it, so there each session has an object of its own, in
\* the same state.
SyncInit ==
    /\ vin \in { [ c |-> c, service |-> service ] :
                    c \in SyncInputs, service \in Services }
    /\ \E interface \in { None, Some("public") } :
          /\ sessions = [ s \in SessionIds |->
                            IF s \in { 1, 2 }
                            THEN [ live |-> TRUE,
                                   auth |-> IF s = 2 /\ vin.c.op = "refresh"
                                            THEN 2 ELSE 1,
                                   cached_info |-> s,
                                   endpoint_interface |-> interface ]
                            ELSE NoSession ]
          /\ \E start \in StartCaches(interface) :
                caches = [ h \in 1..SyncHandles |->
                             IF h \in { 1, 2 } THEN start ELSE EmptyCache ]
    /\ nHandles = 2
    /\ authEpoch = [ a \in AuthIds |-> 0 ]
    /\ nAuths = 2
    /\ tasks = [ t \in TaskIds |-> IdleTask ]
    /\ refreshing = { }
    /\ vout = NoOutput
    /\ ExtraIdle
    /\ StreamIdle

\* A bridge that does not hand the path of the caller on.
SyncCallFutureNoPath(s, c, service) ==
    CallFuture(s, [ c EXCEPT !.path = << >> ], service)

\* SyncSession::get_endpoint, get_major_version, get_api_versions,
\* pick_api_version, supports_api_version and request, up to block_on: the
\* future of the same-named method of the inner Session.
SyncCallFuture(s, c, service) == CallFuture(s, c, service)

\* The Session operation is called.
SessionCall ==
    /\ vin.c.op # "refresh"
    /\ tasks[1].pc = "idle"
    /\ Call(1, vin.c, vin.service)

\* The SyncSession operation is called.
SyncSessionCall ==
    /\ vin.c.op # "refresh"
    /\ tasks[2].pc = "idle"
    /\ tasks' = [ tasks EXCEPT ![2] = SyncCallFuture(2, vin.c, vin.service) ]
    /\ UNCHANGED << sessions, caches, nHandles, authEpoch, nAuths, refreshing, pureVars >>

\* Session::refresh is called, once.
SessionRefresh ==
    /\ vin.c.op = "refresh"
    /\ sessions[1].cached_info = 1
    /\ nHandles < SyncHandles
    /\ RefreshFuture(1)

\* SyncSession::refresh, up to block_on: the future of Session::refresh.
SyncSessionRefresh ==
    /\ vin.c.op = "refresh"
    /\ sessions[2].cached_info = 2
    /\ nHandles < SyncHandles
    /\ RefreshFuture(2)

\* One step of a future of a query.
Drive(t) ==
    \/ EndpointDone(t)
    \/ FetchDone(t)
    \/ AuthRequest(t)
    \/ AuthRequestDone(t)

\* SyncSession::block_on: the runtime of the SyncSession drives the future
\* of the inner Session.
BlockOn ==
    \/ Drive(2)
    \/ RefreshDone(2)

\* The caller of the Session drives its future.
SessionDrive ==
    \/ Drive(1)
    \/ ( vin.c.op = "refresh" /\ RefreshDone(1) )

SyncNext ==
    \/ SessionCall
    \/ SessionRefresh
    \/ SessionDrive
    \/ SyncSessionCall
    \/ SyncSessionRefresh
    \/ BlockOn

SpecSync == SyncInit /\ [][SyncNext]_vars

(***************************************************************************)
(* Claims on the synchronous bridge (SpecSync).                            *)
(***************************************************************************)
\* The cache a session holds.
CacheOf(s) == caches[sessions[s].cached_info]

\* What the collaborators answered to a query: whether the authentication
\* gave an endpoint, what discovery fetched, what the service descriptor
\* said of the version, and which of the calls failed.
EnvOf(q) ==
    [ endpoint |-> IsSome(q.ep),
      info |-> q.info,
      verdict |-> q.verdict,
      failed |-> IF q.result.tag = "err" /\ q.verdict # "rejected"
                 THEN q.result.val ELSE "none" ]

\* The refresh of session s is over: the cache was reset and the future of
\* auth.refresh has completed.
RefreshOver(s) ==
    /\ sessions[s].cached_info # s
    /\ sessions[s].auth \notin refreshing

RaceInit ==
    /\ sessions = [ s \in SessionIds |->
                      IF s \in { 1, 2 }
                      THEN [ live |-> TRUE, auth |-> 1, cached_info |-> 1,
                             endpoint_interface |-> None ]
                      ELSE NoSession ]
    /\ caches = [ h \in HandleIds |-> EmptyCache ]
    /\ nHandles = 1
    /\ authEpoch = [ a \in AuthIds |-> 0 ]
    /\ nAuths = 1
    /\ tasks = [ t \in TaskIds |-> IdleTask ]
    /\ refreshing = { }
    /\ vin = NoInput
    /\ vout = NoOutput
    /\ ExtraIdle
    /\ StreamIdle

\* Session 1 issues the first query and session 2 the second.
RaceCall(c, service) ==
    \E s \in SessionIds :
        /\ s = FreeTask
        /\ Call(s, c, service)

\* The futures are polled in any order and kept once they are done.
RaceNext ==
    \/ \E c \in CallInputs, service \in Services : RaceCall(c, service)
    \/ \E t \in TaskIds : EndpointDone(t)
    \/ \E t \in TaskIds : FetchDone(t)
    \/ \E t \in TaskIds : AuthRequest(t)
    \/ \E t \in TaskIds : AuthRequestDone(t)

SpecRace == RaceInit /\ [][RaceNext]_vars

(***************************************************************************)
(* Claims on concurrent callers (SpecRace).                                *)
(***************************************************************************)
\* The future in slot t stores a fetched ServiceInfo in this step.
Stores(t) == tasks[t].pc = "fetch" /\ IsSome(tasks'[t].info)

\* C21 (steps): a query that finds its key not set takes the miss branch
\* whatever the other future is doing, also when that one is fetching the
\* same key for the same handle; and a future that stores leaves its own
\* ServiceInfo in the cache, whatever the entry was before.
C21_Step ==
    \A t \in TaskIds :
        /\ ( /\ Started(t)
             /\ ~( tasks'[t].op = "pick_api_version"
                   /\ PickShortCircuit(tasks'[t].vers) )
             /\ ~IsSet(sessions[tasks'[t].sess].cached_info, tasks'[t].service) )
           => /\ tasks'[t].pc = "get_endpoint"
              /\ IsMiss(tasks'[t])
        /\ Stores(t)
           => /\ caches'[tasks[t].cached_info][tasks[t].service] = tasks'[t].info
              /\ \A h \in HandleIds, service \in Services :
                    << h, service >> # << tasks[t].cached_info, tasks[t].service >>
                    => caches'[h][service] = caches[h][service]

\* C21 (states): every future on the miss branch makes a call of
\* auth.get_endpoint of its own and, once that has answered, a discovery
\* fetch of its own; the info it got is the one it fetched.
C21_OwnCalls ==
    \A t \in TaskIds :
        IsMiss(tasks[t])
        => /\ Count(tasks[t].trace, "get_endpoint") = 1
           /\ Count(tasks[t].trace, "fetch") = IF IsSome(tasks[t].ep) THEN 1 ELSE 0
           /\ Count(tasks[t].trace, "set") = IF IsSome(tasks[t].info) THEN 1 ELSE 0
           /\ IsSome(tasks[t].info)
              => \E v \in FetchedVersions :
                    Unwrap(tasks[t].info) = ServiceInfoFetch(Unwrap(tasks[t].ep), v)

\* C21: concurrent callers that both miss the same key on the same handle
\* each make their own auth.get_endpoint call and discovery fetch, and the
\* cache holds the ServiceInfo of the caller that stored last.
C21_RacingMisses == [][C21_Step]_vars /\ []C21_OwnCalls

\* Both sessions missed the compute service on the shared handle, both
\* fetched, with different results, and the cache holds what the first
\* caller fetched: it stored after the second.
C21_Witness ==
    /\ \A t \in TaskIds :
          /\ tasks[t].pc = "done"
          /\ IsMiss(tasks[t])
          /\ tasks[t].service = "compute"
          /\ tasks[t].cached_info = 1
          /\ IsSome(tasks[t].info)
          /\ Count(tasks[t].trace, "fetch") = 1
    /\ tasks[1].info # tasks[2].info
    /\ caches[1]["compute"] = tasks[1].info

(***************************************************************************)
(* Claims on the entries of the cache under queries issued one after the   *)
(* other (Spec).                                                           *)
(***************************************************************************)
\* C22: when every query completes before the next one starts, MapCache::set
\* is called at most once for a (cache handle, catalog key): a future stores
\* only into an entry that is not set, and an entry that is set never
\* changes.
C22_Step ==
    /\ \A t \in TaskIds :
          Stores(t) => ~IsSet(tasks[t].cached_info, tasks[t].service)
    /\ \A h \in HandleIds, service \in Services :
          IsSet(h, service) => caches'[h][service] = caches[h][service]

C22_SetOnce == [][C22_Step]_vars

\* Both services were stored in the first cache, one query after the other,
\* and a later query of one of them was answered from the cache.
C22_Witness ==
    /\ \A service \in Services : IsSet(1, service)
    /\ \E t \in TaskIds :
          /\ tasks[t].pc = "done"
          /\ IsHit(tasks[t])
          /\ tasks[t].cached_info = 1
          /\ tasks[t].result.tag = "ok"

(***************************************************************************)
(* SyncSession instances and their executors.  SyncSession b wraps         *)
(* session b; the future of its blocking call is in slot b.  The executor  *)
(* is in a RefCell, which block_on borrows exclusively for as long as it   *)
(* drives a future.                                                        *)
(***************************************************************************)
NoRuntime == [ live |-> FALSE, borrowed |-> FALSE, driving |-> 0, last |-> "none" ]

\* A RefCell that hands out the exclusive borrow without looking.
BorrowMutUnchecked(cell) == TRUE

\* RefCell::borrow_mut succeeds when the cell is not borrowed; if it is, it
\* panics.
BorrowMut(cell) == ~cell.borrowed

\* block_on, up to the executor taking the future: the cell with the borrow
\* taken and one more future driven, or the cell after the panic has
\* unwound the calls in progress on this SyncSession, which drops their
\* borrow.
BlockOnEnter(cell) ==
    IF BorrowMut(cell)
    THEN [ cell EXCEPT !.borrowed = TRUE, !.driving = @ + 1, !.last = "none" ]
    ELSE [ cell EXCEPT !.borrowed = FALSE, !.driving = 0, !.last = "panicked" ]

\* A clone that copies the cell of the executor as it is.
SyncSessionNewShared(cell) == [ cell EXCEPT !.live = TRUE ]

\* SyncSession::new: an executor of its own, in a new RefCell.
SyncSessionNew(cell) == [ NoRuntime EXCEPT !.live = TRUE ]

BridgeInit ==
    /\ SessInit
    /\ vin = NoInput
    /\ vout = NoOutput
    /\ StreamIdle
    /\ rwlock = NoLock
    /\ store = << >>
    /\ threads = << >>
    /\ runtime = [ b \in SessionIds |->
                     IF b = 1 THEN SyncSessionNew(NoRuntime) ELSE NoRuntime ]

\* impl Clone for SyncSession: SyncSession::new(self.inner.clone()).
BridgeClone(b) ==
    /\ runtime[b].live
    /\ FreeSession # 0
    /\ sessions' = [ sessions EXCEPT ![FreeSession] = sessions[b] ]
    /\ runtime' = [ runtime EXCEPT ![FreeSession] = SyncSessionNew(runtime[b]) ]
    /\ UNCHANGED << caches, nHandles, authEpoch, nAuths, tasks, refreshing,
                    vin, vout, streamVars, cacheVars >>

\* The caller of SyncSession b makes a blocking call.
BridgeCall(b, c, service) ==
    /\ runtime[b].live
    /\ tasks[b].pc = "idle"
    /\ runtime' = [ runtime EXCEPT ![b] = BlockOnEnter(@) ]
    /\ tasks' = [ tasks EXCEPT ![b] =
                    IF runtime'[b].last = "panicked" THEN IdleTask
                    ELSE SyncCallFuture(b, c, service) ]
    /\ UNCHANGED << sessions, caches, nHandles, authEpoch, nAuths, refreshing,
                    vin, vout, streamVars, cacheVars >>

\* The future that SyncSession b drives makes a blocking call on b while it
\* is polled, as a stream does that reads a SyncStream of b.  When the
\* borrow fails, the panic unwinds the future and the call that drives it.
NestedCall(b) ==
    /\ runtime[b].live
    /\ runtime[b].driving = 1
    /\ tasks[b].pc \notin { "idle", "done" }
    /\ runtime' = [ runtime EXCEPT ![b] = BlockOnEnter(@) ]
    /\ tasks' = [ tasks EXCEPT ![b] =
                    IF runtime'[b].last = "panicked" THEN IdleTask ELSE @ ]
    /\ UNCHANGED << sessions, caches, nHandles, authEpoch, nAuths, refreshing,
                    vin, vout, streamVars, cacheVars >>

\* The executor of SyncSession b polls the future.
BridgeDrive(b) ==
    /\ runtime[b].borrowed
    /\ Drive(b)

\* block_on returns the result of the future; the borrow ends.
BlockOnReturn(b) ==
    /\ runtime[b].borrowed
    /\ tasks[b].pc = "done"
    /\ tasks' = [ tasks EXCEPT ![b] = IdleTask ]
    /\ runtime' = [ runtime EXCEPT ![b] =
                      [ @ EXCEPT !.borrowed = FALSE, !.driving = 0,
                                 !.last = "returned" ] ]
    /\ UNCHANGED << sessions, caches, nHandles, authEpoch, nAuths, refreshing,
                    vin, vout, streamVars, cacheVars >>

BridgeNext ==
    \/ \E b \in SessionIds : BridgeClone(b)
    \/ \E b \in SessionIds, c \in CallInputs, service \in Services :
            BridgeCall(b, c, service)
    \/ \E b \in SessionIds : NestedCall(b)
    \/ \E b \in SessionIds : BridgeDrive(b)
    \/ \E b \in SessionIds : BlockOnReturn(b)

SpecBridge == BridgeInit /\ [][BridgeNext]_vars

(***************************************************************************)
(* Claims on the executors of SyncSession (SpecBridge).                    *)
(***************************************************************************)
\* A blocking call is made on SyncSession b while one is in progress on it.
SecondCall(b) ==
    /\ runtime[b].borrowed
    /\ tasks[b].pc # "done"
    /\ runtime'[b] # runtime[b]

\* C23 (steps): a blocking call made on a SyncSession while another one is
\* in progress on it fails to borrow the executor and aborts: no second
\* operation is started, the calls in progress are unwound, and neither the
\* Session nor the cache changes.
C23_Step ==
    \A b \in SessionIds :
        SecondCall(b)
        => /\ runtime'[b].last = "panicked"
           /\ runtime'[b].driving = 0
           /\ ~runtime'[b].borrowed
           /\ tasks'[b] = IdleTask
           /\ \A t \in TaskIds : t # b => tasks'[t] = tasks[t]
           /\ sessions' = sessions
           /\ caches' = caches

\* C23 (states): an executor never drives two operations at once, and its
\* cell is borrowed exactly while a blocking call is in progress.
C23_OneOperation ==
    \A b \in SessionIds :
        /\ runtime[b].driving \in { 0, 1 }
        /\ runtime[b].borrowed <=> runtime[b].driving = 1
        /\ runtime[b].borrowed <=> tasks[b].pc # "idle"

\* C23: a second blocking call on a SyncSession during a blocking call on it
\* is a logic error: the second exclusive borrow of the executor fails and
\* the call aborts instead of running two operations on the executor.
C23_SecondBorrowFails == [][C23_Step]_vars /\ []C23_OneOperation

\* A call made from inside a future has aborted on the first SyncSession,
\* after an earlier call had filled the cache.
C23_Witness ==
    /\ runtime[1].last = "panicked"
    /\ ~runtime[1].borrowed
    /\ tasks[1].pc = "idle"
    /\ \E service \in Services : IsSet(sessions[1].cached_info, service)

\* The result of a completed query is the caller's projection of the
\* ServiceInfo the query fetched.
FetchedResult(q) ==
    ( q.pc = "done" /\ q.result.tag = "ok" /\ IsMiss(q) )
    => IF q.op = "request"
       THEN Unwrap(q.url) = Project(q, Unwrap(q.info))
       ELSE q.result.val = Outcome(q, Unwrap(q.info))

\* C24 (steps): a clone gets an executor of its own, not borrowed whatever
\* the original is doing, with the authentication object and the cache
\* handle of the original; a step of one SyncSession leaves the executor of
\* the other alone, and a call made while the other is in a call starts;
\* a query of a service that is in the shared cache, whoever discovered
\* it, is a cache hit answered from that entry.
C24_Step ==
    \A b \in SessionIds :
        /\ ( ~runtime[b].live /\ runtime'[b].live )
           => /\ runtime'[b] = [ NoRuntime EXCEPT !.live = TRUE ]
              /\ \E o \in SessionIds \ { b } :
                    /\ runtime[o].live
                    /\ runtime'[o] = runtime[o]
                    /\ sessions'[b] = sessions[o]
        /\ runtime'[b] # runtime[b]
           => \A o \in SessionIds \ { b } : runtime'[o] = runtime[o]
        /\ ( runtime[b].live /\ ~runtime[b].borrowed /\ runtime'[b] # runtime[b] )
           => /\ runtime'[b].borrowed
              /\ runtime'[b].last = "none"
              /\ tasks'[b].pc # "idle"
        /\ ( Started(b)
             /\ ~( tasks'[b].op = "pick_api_version"
                   /\ PickShortCircuit(tasks'[b].vers) )
             /\ IsSet(sessions[b].cached_info, tasks'[b].service) )
           => /\ IsHit(tasks'[b])
              /\ LET info == Unwrap(caches[sessions[b].cached_info][tasks'[b].service])
                 IN  IF tasks'[b].op = "request"
                     THEN tasks'[b].url = Some(Project(tasks'[b], info))
                     ELSE tasks'[b].result = Ok(Outcome(tasks'[b], info))

\* C24 (states): the SyncSessions share the authentication object and the
\* cache handle, and every query that fetched returns the projection of
\* what it fetched.
C24_Shared ==
    \A b \in SessionIds :
        /\ runtime[b].live
           => /\ sessions[b].auth = sessions[1].auth
              /\ sessions[b].cached_info = sessions[1].cached_info
        /\ FetchedResult(tasks[b])

\* C24: a clone of a SyncSession is independent, with an executor of its
\* own, and shares the authentication object and the cache handle; calls in
\* progress on both at once complete with the right results, and what one
\* discovers is a cache hit for the other.
C24_IndependentClones == [][C24_Step]_vars /\ []C24_Shared

\* Calls are in progress on the original and on the clone at once: the
\* original is fetching the image service, the clone has been answered
\* from the cache for the compute service.
C24_Witness ==
    /\ runtime[1].borrowed
    /\ runtime[2].borrowed
    /\ tasks[1].pc = "fetch"
    /\ tasks[1].service = "image"
    /\ tasks[2].pc = "done"
    /\ tasks[2].service = "compute"
    /\ IsHit(tasks[2])
    /\ tasks[2].result.tag = "ok"

(***************************************************************************)
(* The caches under their lock.  A MapCache is a HashMap and a ValueCache  *)
(* an Option behind an RwLock; every method takes the lock, works on what  *)
(* it protects and drops the guard when it returns.  A value has two       *)
(* parts, which are read and written one after the other, so that a        *)
(* reader running during a write would see it.                             *)
(***************************************************************************)
ThreadIds == 1..MaxThreads

\* The values stored: ServiceInfo-like, both parts of one origin.
CacheValues == { [ root |-> v, vers |-> v ] : v \in 1..MaxValues }

\* The closures handed to extract: the whole value, or one part of it.
Filters == { "id", "root" }

ApplyFilter(f, v) == IF f = "id" THEN v ELSE v.root

\* The closures handed to validate: accept every value, or only the first.
Checks == { "any", "first" }

ApplyCheck(c, v) == c = "any" \/ v.root = 1

\* The keys of a cache: the catalog types of a MapCache; a ValueCache has
\* the one slot "none".
CacheKeys(kind) == IF kind = "map" THEN Services ELSE { "none" }

\* MapCache::default, ValueCache::default
EmptyStore(kind) ==
    [ kind |-> kind,
      data |-> IF kind = "map" THEN [ k \in Services |-> None ] ELSE None ]

\* What the cache holds for a key.
Get(st, key) == IF st.kind = "map" THEN st.data[key] ELSE st.data

\* A store that keeps the entry it has.
PutIfAbsent(st, key, entry) ==
    IF IsSome(Get(st, key)) THEN st
    ELSE IF st.kind = "map" THEN [ st EXCEPT !.data[key] = entry ]
    ELSE [ st EXCEPT !.data = entry ]

Put(st, key, entry) ==
    IF st.kind = "map" THEN [ st EXCEPT !.data[key] = entry ]
    ELSE [ st EXCEPT !.data = entry ]

\* The methods of the two caches.
ReadOps(kind) == IF kind = "map" THEN { "is_set", "extract" } ELSE { "validate", "extract" }

\* The calls a thread may make on a cache of the kind.
CacheCalls(kind) ==
    { [ op |-> op, key |-> key, fn |-> fn, value |-> NoValue ] :
        op \in { "is_set" } \cap ReadOps(kind), key \in CacheKeys(kind),
        fn \in { "none" } }
    \cup { [ op |-> "extract", key |-> key, fn |-> fn, value |-> NoValue ] :
             key \in CacheKeys(kind), fn \in Filters }
    \cup { [ op |-> op, key |-> key, fn |-> fn, value |-> NoValue ] :
             op \in { "validate" } \cap ReadOps(kind), key \in CacheKeys(kind),
             fn \in Checks }
    \cup { [ op |-> "set", key |-> key, fn |-> "none", value |-> v ] :
             key \in CacheKeys(kind), v \in CacheValues }

\* The calls on either cache.
AllCalls == CacheCalls("map") \cup CacheCalls("value")

\* A read lock granted while a writer holds the lock.
CanReadAlways(lock) == TRUE

\* RwLock::read is granted when no writer holds the lock.
CanRead(lock) == ~lock.writer

\* RwLock::write is granted when nobody holds the lock.
CanWrite(lock) == lock.readers = 0 /\ ~lock.writer

\* A method that goes on with the guard of a poisoned lock.
ExpectRecover(lock) == TRUE

\* .expect("Cache lock is poisoned"): the call goes on when the lock is not
\* poisoned and panics when it is.
Expect(lock) == ~lock.poisoned

\* A method that does not drop the guard when it returns.
GuardKept(held) == held

\* The guard is a local of the method: it is dropped when the method
\* returns.
GuardDropped(held) == "none"

\* The lock after a guard of the kind is dropped.
Unlock(lock, held) ==
    CASE held = "read" -> [ lock EXCEPT !.readers = @ - 1 ]
      [] held = "write" -> [ lock EXCEPT !.writer = FALSE ]
      [] OTHER -> lock

\* A thread calls a method of the cache.
CacheCall(t, c) ==
    /\ threads[t].pc = "idle"
    /\ threads[t].stage = "none"
    /\ c \in CacheCalls(store.kind)
    /\ threads' = [ threads EXCEPT ![t] =
                      [ NoThread EXCEPT !.pc = "lock", !.op = c.op, !.key = c.key,
                                        !.fn = c.fn, !.value = c.value,
                                        !.held = threads[t].held ] ]
    /\ UNCHANGED << sessVars, vin, vout, streamVars, rwlock, store, runtime >>

\* The thread after the method has ended: back at its caller, or at the
\* next step of the query it is in.
Ended(th, ret, obs) ==
    [ th EXCEPT !.pc = IF th.stage = "none" THEN "idle" ELSE "resume",
                !.ret = ret, !.obs = obs ]

\* self.0.read().expect(..) or self.0.write().expect(..): the thread gets
\* the lock when it can be granted; on a poisoned lock the call panics and
\* the guard inside the error is dropped.
Lock(t) ==
    LET th == threads[t]
        kind == IF th.op = "set" THEN "write" ELSE "read"
    IN  /\ th.pc = "lock"
        /\ IF kind = "read" THEN CanRead(rwlock) ELSE CanWrite(rwlock)
        /\ IF Expect(rwlock)
           THEN /\ rwlock' = IF kind = "read"
                             THEN [ rwlock EXCEPT !.readers = @ + 1 ]
                             ELSE [ rwlock EXCEPT !.writer = TRUE ]
                /\ threads' = [ threads EXCEPT ![t] =
                                  [ th EXCEPT !.pc = kind, !.held = kind ] ]
           ELSE /\ rwlock' = rwlock
                /\ threads' = [ threads EXCEPT ![t] =
                                  [ Ended(th, "poisoned", None) EXCEPT
                                      !.pc = "idle", !.stage = "none" ] ]
        /\ UNCHANGED << sessVars, vin, vout, streamVars, store, runtime >>

\* The reader looks the key up and reads the first part of the value.
ReadFirst(t) ==
    LET th == threads[t]
        entry == Get(store, th.key)
    IN  /\ th.pc = "read"
        /\ threads' = [ threads EXCEPT ![t] =
                          [ th EXCEPT
                              !.pc = "read2",
                              !.seen = [ present |-> IsSome(entry),
                                         root |-> IF IsSome(entry)
                                                  THEN Unwrap(entry).root ELSE 0 ] ] ]
        /\ UNCHANGED << sessVars, vin, vout, streamVars, rwlock, store, runtime >>

\* A validate that accepts an empty cache.
ReadResultLenient(op, fn, present, value) ==
    CASE op = "is_set" -> present
      [] op = "validate" -> IF present THEN ApplyCheck(fn, value) ELSE TRUE
      [] op = "extract" -> IF present THEN Some(ApplyFilter(fn, value)) ELSE None

\* What the method returns for the value it has read (or for none).
ReadResult(op, fn, present, value) ==
    CASE op = "is_set" -> present
      [] op = "validate" -> IF present THEN ApplyCheck(fn, value) ELSE FALSE
      [] op = "extract" -> IF present THEN Some(ApplyFilter(fn, value)) ELSE None

\* The reader reads the second part, applies the closure when there is a
\* value, and returns; the guard is dropped.
ReadReturn(t) ==
    LET th == threads[t]
        entry == Get(store, th.key)
        value == [ root |-> th.seen.root,
                   vers |-> IF IsSome(entry) THEN Unwrap(entry).vers ELSE 0 ]
        done == Ended(th, "returned",
                      ReadResult(th.op, th.fn, th.seen.present, value))
    IN  /\ th.pc = "read2"
        /\ threads' = [ threads EXCEPT ![t] =
                          [ done EXCEPT
                              !.called = th.seen.present /\ th.op # "is_set",
                              !.value = IF th.seen.present THEN value ELSE NoValue,
                              !.held = GuardDropped(th.held) ] ]
        /\ rwlock' = IF GuardDropped(th.held) = "none"
                     THEN Unlock(rwlock, th.held) ELSE rwlock
        /\ UNCHANGED << sessVars, vin, vout, streamVars, store, runtime >>

\* The writer puts the first part of the value in place.
WriteFirst(t) ==
    LET th == threads[t]
        entry == Get(store, th.key)
    IN  /\ th.pc = "write"
        /\ store' = Put(store, th.key,
                        Some([ root |-> th.value.root,
                               vers |-> IF IsSome(entry)
                                        THEN Unwrap(entry).vers ELSE 0 ]))
        /\ threads' = [ threads EXCEPT ![t] = [ th EXCEPT !.pc = "write2" ] ]
        /\ UNCHANGED << sessVars, vin, vout, streamVars, rwlock, runtime >>

\* The writer puts the second part in place and returns; the guard is
\* dropped.
WriteReturn(t) ==
    LET th == threads[t]
    IN  /\ th.pc = "write2"
        /\ store' = Put(store, th.key, Some(th.value))
        /\ threads' = [ threads EXCEPT ![t] =
                          [ Ended(th, "returned", None) EXCEPT !.held = "none" ] ]
        /\ rwlock' = Unlock(rwlock, "write")
        /\ UNCHANGED << sessVars, vin, vout, streamVars, runtime >>

\* The writer panics with the guard in hand: the lock is poisoned.
WritePanic(t) ==
    LET th == threads[t]
    IN  /\ th.pc = "write2"
        /\ threads' = [ threads EXCEPT ![t] =
                          [ Ended(th, "panicked", None) EXCEPT
                              !.pc = "idle", !.stage = "none", !.held = "none" ] ]
        /\ rwlock' = [ Unlock(rwlock, "write") EXCEPT !.poisoned = TRUE ]
        /\ UNCHANGED << sessVars, vin, vout, streamVars, store, runtime >>

\* A step inside a method of the cache.
CacheStep(t) ==
    \/ Lock(t)
    \/ ReadFirst(t)
    \/ ReadReturn(t)
    \/ WriteFirst(t)
    \/ WriteReturn(t)
    \/ WritePanic(t)

LockInit ==
    /\ SessInit
    /\ vin = NoInput
    /\ vout = NoOutput
    /\ StreamIdle
    /\ rwlock = NoLock
    /\ store \in { EmptyStore("map"), EmptyStore("value") }
    /\ threads = [ t \in ThreadIds |-> NoThread ]
    /\ runtime = << >>

LockNext ==
    \/ \E t \in ThreadIds, c \in AllCalls : CacheCall(t, c)
    \/ \E t \in ThreadIds : CacheStep(t)

SpecLock == LockInit /\ [][LockNext]_vars

\* A read method of thread t returns in this step.
ReadEnds(t) == threads[t].pc = "read2" /\ threads'[t].pc # "read2"

\* What a read method returns, had it run all at once on the cache as it
\* is.
AtomicRead(st, th) ==
    LET entry == Get(st, th.key)
    IN  ReadResult(th.op, th.fn, IsSome(entry),
                   IF IsSome(entry) THEN Unwrap(entry) ELSE NoValue)

C25_Step ==
    \A t \in ThreadIds :
        (store.kind = "map" /\ ReadEnds(t)) =>
            LET entry == Get(store, threads[t].key)
            IN  /\ IsSome(entry) => Unwrap(entry) \in CacheValues
                /\ threads'[t].value \in CacheValues \cup { NoValue }
                /\ threads'[t].obs = AtomicRead(store, threads[t])

\* While a reader holds the lock, every stored entry is a complete value.
C25_NoTornEntry ==
    (store.kind = "map" /\ rwlock.readers > 0) =>
        \A k \in Services :
            IsSome(store.data[k]) => Unwrap(store.data[k]) \in CacheValues

\* C25: under any interleaving of is_set, extract and set on one keyed
\* cache, a read returns for its key either "absent" or one complete value
\* that a set stored, never a mixture of two, and what it returns is what
\* the cache holds for the key at the moment the read returns.
C25_AtomicReads == [][C25_Step]_vars /\ []C25_NoTornEntry

\* A reader is in the middle of reading a stored value while another thread
\* waits to set another value on the same key.
C25_Witness ==
    /\ store.kind = "map"
    /\ \E t \in ThreadIds, u \in ThreadIds :
          /\ t # u
          /\ threads[t].pc = "read2"
          /\ threads[t].op = "extract"
          /\ threads[u].pc = "lock"
          /\ threads[u].op = "set"
          /\ threads[u].key = threads[t].key
          /\ IsSome(Get(store, threads[t].key))
          /\ Unwrap(Get(store, threads[t].key)) # threads[u].value

(***************************************************************************)
(* The session's use of the cache, method by method: a query calls is_set, *)
(* then extract on a hit, or awaits auth.get_endpoint and the discovery    *)
(* fetch and then calls set; request awaits auth.request after that;       *)
(* refresh installs a new cache and awaits auth.refresh.                   *)
(***************************************************************************)
\* The thread enters a method of the cache in the course of a query.
Enter(th, stage, op, fn, value) ==
    [ th EXCEPT !.pc = "lock", !.stage = stage, !.op = op, !.fn = fn,
                !.value = value, !.seen = NoThread.seen, !.called = FALSE,
                !.ret = "none", !.obs = None ]

\* The thread awaits a future of the authentication object or of the
\* discovery.
Await(th, stage) == [ th EXCEPT !.pc = "suspended", !.stage = stage ]

\* The query is over.
Over(th) == [ NoThread EXCEPT !.held = th.held, !.ret = "returned" ]

\* Session::request after the endpoint is known: auth.request(method, url).
AfterEndpoint(th) ==
    IF th.api = "request" THEN Await(th, "auth_request") ELSE Over(th)

\* extract_service_info, or request, is called for a service: is_set.
QueryStart(t, api, service) ==
    /\ threads[t].pc = "idle"
    /\ store.kind = "map"
    /\ threads' = [ threads EXCEPT ![t] =
                      Enter([ NoThread EXCEPT !.api = api, !.key = service,
                                              !.held = threads[t].held ],
                            "is_set", "is_set", "none", NoValue) ]
    /\ UNCHANGED << sessVars, vin, vout, streamVars, rwlock, store, runtime >>

\* Session::refresh: reset_cache, then auth.refresh().
RefreshStart(t) ==
    /\ threads[t].pc = "idle"
    /\ store.kind = "map"
    /\ threads' = [ threads EXCEPT ![t] =
                      Await([ NoThread EXCEPT !.api = "refresh",
                                              !.held = threads[t].held ],
                            "refresh") ]
    /\ UNCHANGED << sessVars, vin, vout, streamVars, rwlock, store, runtime >>

\* The query goes on after a method of the cache has returned.
QueryResume(t) ==
    LET th == threads[t]
    IN  /\ th.pc = "resume"
        /\ threads' = [ threads EXCEPT ![t] =
                CASE th.stage = "is_set" ->
                        IF th.obs THEN Enter(th, "extract", "extract", "id", NoValue)
                        ELSE Await(th, "get_endpoint")
                  [] OTHER -> AfterEndpoint(th) ]
        /\ UNCHANGED << sessVars, vin, vout, streamVars, rwlock, store, runtime >>

\* The awaited future resolves: the endpoint, then the fetched service
\* information, which is stored; the request builder; the refresh.
Answer(t, info) ==
    LET th == threads[t]
    IN  /\ th.pc = "suspended"
        /\ threads' = [ threads EXCEPT ![t] =
                CASE th.stage = "get_endpoint" -> Await(th, "fetch")
                  [] th.stage = "fetch" -> Enter(th, "set", "set", "none", info)
                  [] OTHER -> Over(th) ]
        /\ UNCHANGED << sessVars, vin, vout, streamVars, rwlock, store, runtime >>

QueryInit ==
    /\ SessInit
    /\ vin = NoInput
    /\ vout = NoOutput
    /\ StreamIdle
    /\ rwlock = NoLock
    /\ store = EmptyStore("map")
    /\ threads = [ t \in ThreadIds |-> NoThread ]
    /\ runtime = << >>

QueryNext ==
    \/ \E t \in ThreadIds, api \in { "query", "request" }, service \in Services :
          QueryStart(t, api, service)
    \/ \E t \in ThreadIds : RefreshStart(t)
    \/ \E t \in ThreadIds : QueryResume(t)
    \/ \E t \in ThreadIds, info \in CacheValues : Answer(t, info)
    \/ \E t \in ThreadIds, c \in AllCalls : CacheCall(t, c)
    \/ \E t \in ThreadIds : CacheStep(t)

SpecQuery == QueryInit /\ [][QueryNext]_vars

\* The threads that hold a guard of the kind.
Holders(kind) == { t \in ThreadIds : threads[t].held = kind }

\* The threads that are inside a method of the cache.
InMethod == { t \in ThreadIds : threads[t].pc \in { "read", "read2", "write", "write2" } }

\* C26: no lock of the cache is held across a suspension point: a thread
\* that awaits auth.get_endpoint, the discovery fetch, auth.request or
\* auth.refresh holds neither a read nor a write guard, the lock is held
\* only by threads that are inside a method of the cache, and so a
\* pending query never keeps another caller from the lock.
C26_NoLockAcrossAwait ==
    /\ \A t \in ThreadIds :
          threads[t].pc = "suspended" =>
              /\ threads[t].stage \in { "get_endpoint", "fetch", "auth_request", "refresh" }
              /\ threads[t].held = "none"
    /\ rwlock.readers = Cardinality(Holders("read"))
    /\ rwlock.writer = ( Holders("write") # { } )
    /\ Holders("read") \cup Holders("write") \subseteq InMethod
    /\ InMethod = { } => CanWrite(rwlock)

\* One thread awaits the discovery fetch of a service while another is
\* writing the same key of the cache under the write lock.
C26_Witness ==
    \E t \in ThreadIds, u \in ThreadIds :
        /\ threads[t].pc = "suspended"
        /\ threads[t].stage = "fetch"
        /\ threads[u].pc = "write2"
        /\ threads[u].key = threads[t].key
        /\ rwlock.writer

\* set of thread t returns in this step.
SetEnds(t) == threads[t].pc = "write2" /\ threads'[t].ret = "returned"

C27_Step ==
    store.kind = "map" =>
        /\ \A t \in ThreadIds :
              SetEnds(t) =>
                  /\ store'.data[threads[t].key] = Some(threads[t].value)
                  /\ \A k \in Services \ { threads[t].key } :
                        store'.data[k] = store.data[k]
        /\ \A t \in ThreadIds :
              ReadEnds(t) =>
                  /\ store' = store
                  /\ threads[t].op = "is_set" =>
                        threads'[t].obs = IsSome(store.data[threads[t].key])
                  /\ threads[t].op = "extract" =>
                        threads'[t].obs =
                            IF IsSome(store.data[threads[t].key])
                            THEN Some(ApplyFilter(threads[t].fn,
                                                  Unwrap(store.data[threads[t].key])))
                            ELSE None
        /\ \A k \in Services :
              store'.data[k] # store.data[k] =>
                  \E t \in ThreadIds :
                      /\ threads[t].op = "set"
                      /\ threads[t].key = k
                      /\ threads[t].pc \in { "write", "write2" }
                      /\ threads'[t].pc # threads[t].pc

\* C27: on the keyed cache, set(k, v) leaves v stored under k and every
\* other key as it was; is_set(k) returns whether k holds a value and
\* extract(k, f) returns Some(f(v)) of the value v held, None when there is
\* none; is_set and extract change nothing, and the entry of a key changes
\* only in a set on that key, so a key never set stays absent and a
\* stored value stays until the next set on its key.
C27_MapCache == [][C27_Step]_vars

\* extract has returned a part of the second value set on a key, over the
\* first one, while the other key still holds the first value.
C27_Witness ==
    /\ store.kind = "map"
    /\ ~rwlock.poisoned
    /\ \E t \in ThreadIds, u \in ThreadIds :
          /\ t # u
          /\ threads[t].pc = "idle"
          /\ threads[t].op = "extract"
          /\ threads[t].fn = "root"
          /\ threads[t].ret = "returned"
          /\ threads[t].obs = Some(2)
          /\ threads[t].key = "compute"
          /\ threads[u].pc = "idle"
          /\ threads[u].op = "is_set"
          /\ threads[u].key = "image"
          /\ threads[u].obs = TRUE
    /\ store.data["compute"] = Some([ root |-> 2, vers |-> 2 ])
    /\ store.data["image"] = Some([ root |-> 1, vers |-> 1 ])

C28_Step ==
    store.kind = "value" =>
        /\ \A t \in ThreadIds :
              SetEnds(t) => store'.data = Some(threads[t].value)
        /\ \A t \in ThreadIds :
              ReadEnds(t) =>
                  /\ store' = store
                  /\ threads[t].op = "validate" =>
                        /\ threads'[t].obs =
                              ( IsSome(store.data)
                                /\ ApplyCheck(threads[t].fn, Unwrap(store.data)) )
                        /\ threads'[t].called = IsSome(store.data)
                  /\ threads[t].op = "extract" =>
                        threads'[t].obs =
                            IF IsSome(store.data)
                            THEN Some(ApplyFilter(threads[t].fn, Unwrap(store.data)))
                            ELSE None
        /\ store'.data # store.data =>
              \E t \in ThreadIds :
                  /\ threads[t].op = "set"
                  /\ threads[t].pc \in { "write", "write2" }
                  /\ threads'[t].pc # threads[t].pc

\* C28: on the single-value cache, validate(p) returns true exactly when
\* a value is present and p accepts it, and on an empty cache returns
\* false without calling p; extract(f) returns Some(f(value)) when a value
\* is present and None otherwise; set(v) leaves v as the value whatever
\* was there; validate and extract never change the value.
C28_ValueCache == [][C28_Step]_vars

\* The cache holds the second value, set over the first: a validate whose
\* check rejects it was called and returned false, and an extract of the
\* whole value returned it.
C28_Witness ==
    /\ store.kind = "value"
    /\ ~rwlock.poisoned
    /\ store.data = Some([ root |-> 2, vers |-> 2 ])
    /\ \E t \in ThreadIds, u \in ThreadIds :
          /\ t # u
          /\ threads[t].pc = "idle"
          /\ threads[t].op = "validate"
          /\ threads[t].fn = "first"
          /\ threads[t].ret = "returned"
          /\ threads[t].called
          /\ threads[t].obs = FALSE
          /\ threads[u].pc = "idle"
          /\ threads[u].op = "extract"
          /\ threads[u].fn = "id"
          /\ threads[u].obs = Some([ root |-> 2, vers |-> 2 ])

\* validate has returned false on the empty cache without calling its
\* check.
C28_EmptyWitness ==
    /\ store.kind = "value"
    /\ store.data = None
    /\ \E t \in ThreadIds :
          /\ threads[t].op = "validate"
          /\ threads[t].ret = "returned"
          /\ threads[t].obs = FALSE
          /\ ~threads[t].called

C29_Step ==
    rwlock.poisoned =>
        /\ rwlock'.poisoned
        /\ store' = store
        /\ \A t \in ThreadIds :
              /\ threads'[t].ret = "returned" => threads'[t] = threads[t]
              /\ ( threads[t].pc = "lock" /\ threads'[t] # threads[t] ) =>
                    /\ threads'[t].ret = "poisoned"
                    /\ threads'[t].pc = "idle"
                    /\ threads'[t].obs = None
                    /\ threads'[t].held = "none"

\* On a poisoned lock no thread is inside a method with a guard.
C29_NoneProceeds ==
    rwlock.poisoned =>
        /\ InMethod = { }
        /\ Holders("read") \cup Holders("write") = { }

\* C29: once the lock of a cache is poisoned it stays poisoned, and every
\* validate, extract, is_set and set on it panics when it takes the lock:
\* none goes on to read or write, none returns, and the cache is not
\* modified.
C29_PoisonIsFatal == [][C29_Step]_vars /\ []C29_NoneProceeds

\* On a poisoned lock a set and a read have both panicked on taking the
\* lock.
C29_Witness ==
    /\ rwlock.poisoned
    /\ \E t \in ThreadIds, u \in ThreadIds :
          /\ threads[t].op = "set"
          /\ threads[t].ret = "poisoned"
          /\ threads[u].op \in ReadOps(store.kind)
          /\ threads[u].ret = "poisoned"

(***************************************************************************)
(* NoAuth: the authentication type with a fixed endpoint.                  *)
(***************************************************************************)
\* The strings NoAuth::new is given: URLs as they are written back, one
\* URL written with an upper-case scheme, and a string that is not a URL.
NoAuthUrls ==
    { "http://127.0.0.1:8080/v1", "https://cloud.local/baremetal",
      "http://127.0.0.1:5000/", "HTTP://127.0.0.1:8080/v1", "foo bar" }

\* IntoUrl::into_url: the URL a string denotes, named by its normal form,
\* or an error.
IntoUrl(u) ==
    CASE u = "foo bar" -> Err("invalid url")
      [] u = "HTTP://127.0.0.1:8080/v1" -> Ok("http://127.0.0.1:8080/v1")
      [] OTHER -> Ok(u)

\* Url::scheme, host_str, port and path of the URLs above.
UrlParts(url) ==
    CASE url = "http://127.0.0.1:8080/v1" ->
            [ scheme |-> "http", host |-> "127.0.0.1", port |-> Some(8080), path |-> "/v1" ]
      [] url = "https://cloud.local/baremetal" ->
            [ scheme |-> "https", host |-> "cloud.local", port |-> None, path |-> "/baremetal" ]
      [] url = "http://127.0.0.1:5000/" ->
            [ scheme |-> "http", host |-> "127.0.0.1", port |-> Some(5000), path |-> "/" ]

\* The conversion that the ? applies to the error of into_url.
ErrorFrom(e) == [ kind |-> "InvalidEndpoint", cause |-> e ]

\* A constructor that takes the string as it is when it is no URL.
NoAuthNewLenient(u) == Ok([ client |-> "client", endpoint |-> u ])

\* NoAuth::new
NoAuthNew(u) ==
    IF IntoUrl(u).tag = "ok"
    THEN Ok([ client |-> "client", endpoint |-> IntoUrl(u).val ])
    ELSE Err(ErrorFrom(IntoUrl(u).val))

\* The service types and interfaces get_endpoint is asked for.
NoAuthServices == Services \cup { "foobar" }

NoAuthInterfaces == { None } \cup { Some(i) : i \in Interfaces }

\* An authentication type with an endpoint of its own for the image
\* service.
NoAuthGetEndpointByService(a, service_type, endpoint_interface) ==
    IF service_type = "image" THEN Ok("http://127.0.0.1:9292/")
    ELSE Ok(a.endpoint)

\* NoAuth::get_endpoint: future::ok(self.endpoint.clone())
NoAuthGetEndpoint(a, service_type, endpoint_interface) == Ok(a.endpoint)

\* NoAuth::refresh: future::ok(())
NoAuthRefresh(a) == Ok(<< >>)

\* AuthType::region, which NoAuth does not override.
Region(a) == None

NoAuthInit ==
    /\ SessInit
    /\ \E u \in NoAuthUrls : vin = [ src |-> u, auth |-> NoAuthNew(u), refreshes |-> 0 ]
    /\ vout = NoOutput
    /\ ExtraIdle
    /\ StreamIdle

ApplyNoAuthGetEndpoint(service_type, endpoint_interface) ==
    /\ vin.auth.tag = "ok"
    /\ vout' = [ op |-> "get_endpoint",
                 arg |-> Some(<< service_type, endpoint_interface >>),
                 val |-> NoAuthGetEndpoint(vin.auth.val, service_type,
                                           endpoint_interface) ]
    /\ UNCHANGED << sessVars, vin, streamVars, extraVars >>

ApplyNoAuthRefresh ==
    /\ vin.auth.tag = "ok"
    /\ vin.refreshes < MaxRefresh
    /\ vin' = [ vin EXCEPT !.refreshes = @ + 1 ]
    /\ vout' = [ op |-> "refresh", arg |-> None, val |-> NoAuthRefresh(vin.auth.val) ]
    /\ UNCHANGED << sessVars, streamVars, extraVars >>

ApplyNoAuthRegion ==
    /\ vin.auth.tag = "ok"
    /\ vout' = [ op |-> "region", arg |-> None, val |-> Region(vin.auth.val) ]
    /\ UNCHANGED << sessVars, vin, streamVars, extraVars >>

NoAuthNext ==
    \/ \E service_type \in NoAuthServices, endpoint_interface \in NoAuthInterfaces :
          ApplyNoAuthGetEndpoint(service_type, endpoint_interface)
    \/ ApplyNoAuthRefresh
    \/ ApplyNoAuthRegion

SpecNoAuth == NoAuthInit /\ [][NoAuthNext]_vars

C30_Step ==
    /\ vin'.auth = vin.auth
    /\ vin'.src = vin.src
    /\ vout'.op = "refresh" => vout'.val = Ok(<< >>)

C30_Results ==
    /\ vout.op = "get_endpoint" => vout.val = IntoUrl(vin.src)
    /\ vout.op = "region" => vout.val = None
    /\ vin.auth.tag = "ok" => Ok(vin.auth.val.endpoint) = IntoUrl(vin.src)

\* C30: a NoAuth built from the URL u returns u from get_endpoint for
\* every service type and every interface, none included, on every call
\* and after any number of refresh calls; refresh succeeds and leaves the
\* object as it was; region is absent.
C30_NoAuth == [][C30_Step]_vars /\ []C30_Results

\* After the refresh calls, get_endpoint for the image service without an
\* interface has returned the URL the object was built from.
C30_Witness ==
    /\ vin.src = "https://cloud.local/baremetal"
    /\ vin.refreshes = MaxRefresh
    /\ vout.op = "get_endpoint"
    /\ vout.arg = Some(<< "image", None >>)
    /\ vout.val = Ok("https://cloud.local/baremetal")

\* The strings that are URLs.
ValidUrls == { u \in NoAuthUrls : IntoUrl(u).tag = "ok" }

\* C31: NoAuth::new succeeds on a string that is a URL and the object
\* holds the parsed URL, its scheme, host, port and path being those of
\* the URL written; on a string that is no URL it fails with an
\* InvalidEndpoint error and there is no object.
C31_NoAuthNew ==
    /\ vin.src \in ValidUrls <=> vin.auth.tag = "ok"
    /\ vin.src \in ValidUrls =>
          /\ Ok(vin.auth.val.endpoint) = IntoUrl(vin.src)
          /\ vin.auth.val.endpoint \in ValidUrls
          /\ UrlParts(vin.auth.val.endpoint) = UrlParts(IntoUrl(vin.src).val)
    /\ vin.src \notin ValidUrls =>
          /\ vin.auth.tag = "err"
          /\ vin.auth.val.kind = "InvalidEndpoint"
    /\ vin.src = "http://127.0.0.1:8080/v1" =>
          UrlParts(vin.auth.val.endpoint) =
              [ scheme |-> "http", host |-> "127.0.0.1", port |-> Some(8080),
                path |-> "/v1" ]

\* An object built from a URL written with an upper-case scheme has
\* answered get_endpoint: it holds the parsed URL.
C31_Witness ==
    /\ vin.src = "HTTP://127.0.0.1:8080/v1"
    /\ vin.auth.tag = "ok"
    /\ UrlParts(vin.auth.val.endpoint).scheme = "http"
    /\ UrlParts(vin.auth.val.endpoint).port = Some(8080)
    /\ vout.op = "get_endpoint"

\* The construction from "foo bar" has failed.
C31_FailWitness ==
    /\ vin.src = "foo bar"
    /\ vin.auth = Err(ErrorFrom("invalid url"))

\* The discovery of the query in slot t fails in this step: at
\* auth.get_endpoint or at the fetch.
DiscoveryFails(t) ==
    /\ tasks[t].pc \in { "get_endpoint", "fetch" }
    /\ tasks'[t].pc = "done"
    /\ tasks'[t].info = None

C32_Step ==
    /\ \A t \in TaskIds :
          DiscoveryFails(t) =>
              /\ tasks'[t].result =
                    Err(IF tasks[t].pc = "get_endpoint" THEN "auth" ELSE "discovery")
              /\ tasks'[t].trace = tasks[t].trace
              /\ Count(tasks'[t].trace, "filter") = 0
              /\ Count(tasks'[t].trace, "set") = 0
              /\ caches' = caches
              /\ caches'[tasks[t].cached_info][tasks[t].service] = None
    /\ \A t \in TaskIds, s \in SessionIds :
          ( Started(t) /\ tasks'[t].sess = s
            /\ ~IsSet(sessions[s].cached_info, tasks'[t].service)
            /\ ~StaticallyEmptyPick(tasks'[t]) ) =>
              /\ tasks'[t].pc = "get_endpoint"
              /\ tasks'[t].result = NoResult

\* C32: when auth.get_endpoint or the discovery fetch fails on a cache
\* miss, the query resolves to that error, the projection is not applied
\* and nothing is stored: the cache is as it was, the key is still unset,
\* and a query that finds the key unset starts the discovery again.
C32_FailedDiscovery == [][C32_Step]_vars

\* A discovery fetch has failed after a refresh of the Session: the query
\* holds the error and the key is unset in its cache.
C32_Witness ==
    \E t \in TaskIds :
        /\ tasks[t].pc = "done"
        /\ tasks[t].result = Err("discovery")
        /\ IsSome(tasks[t].ep)
        /\ tasks[t].cached_info = 2
        /\ ~IsSet(tasks[t].cached_info, tasks[t].service)

(***************************************************************************)
(* The hit path of extract_service_info in two steps: is_set, then         *)
(* extract with its assertion, while other threads work on the Sessions    *)
(* that share the cache.                                                   *)
(***************************************************************************)
\* The queries made here.
HitInputs == { c \in CallInputs : c.op = "get_major_version" }

\* extract_service_info after is_set has returned true and before extract
\* is called; on a miss, the future as before.
CheckedFuture(s, c, service) ==
    IF IsSet(sessions[s].cached_info, service)
    THEN [ CallFuture(s, c, service) EXCEPT
             !.pc = "extract", !.result = NoResult, !.trace = << "is_set" >> ]
    ELSE CallFuture(s, c, service)

\* No thread is inside a method of the Session: what a method that takes
\* &mut self requires.
Exclusive(s) ==
    \A t \in TaskIds : ~( tasks[t].sess = s /\ tasks[t].pc = "extract" )

HitCall(s, c, service) ==
    /\ Live(s)
    /\ FreeTask # 0
    /\ tasks' = [ tasks EXCEPT ![FreeTask] = CheckedFuture(s, c, service) ]
    /\ UNCHANGED << sessions, caches, nHandles, authEpoch, nAuths, refreshing, pureVars >>

\* self.cached_info.extract(&catalog_type, filter).expect("BUG: ..."): the
\* projection of the entry, or the panic of the assertion when there is
\* none.
HitExtract(t) ==
    LET q == tasks[t]
        entry == caches[sessions[q.sess].cached_info][q.service]
    IN  /\ q.pc = "extract"
        /\ tasks' = [ tasks EXCEPT ![t] =
                IF IsSome(entry)
                THEN Resolved([ q EXCEPT !.trace = @ \o << "extract" >> ],
                              Project(q, Unwrap(entry)))
                ELSE [ q EXCEPT !.pc = "done", !.result = Err("BUG") ] ]
        /\ UNCHANGED << sessions, caches, nHandles, authEpoch, nAuths, refreshing, pureVars >>

\* The methods that take &mut self, called when the Session is borrowed
\* by nobody else.
MutSetAuthType(s) == Exclusive(s) /\ SetAuthType(s)

MutSetEndpointInterface(s, i) == Exclusive(s) /\ SetEndpointInterface(s, i)

MutRefresh(s) == Exclusive(s) /\ Refresh(s)

HitNext ==
    \/ \E s \in SessionIds : Clone(s)
    \/ \E s \in SessionIds : MutSetAuthType(s)
    \/ \E s \in SessionIds, i \in Interfaces : MutSetEndpointInterface(s, i)
    \/ \E s \in SessionIds : MutRefresh(s)
    \/ \E s \in SessionIds, c \in HitInputs, service \in Services : HitCall(s, c, service)
    \/ \E t \in TaskIds : HitExtract(t)
    \/ \E t \in TaskIds : EndpointDone(t)
    \/ \E t \in TaskIds : FetchDone(t)
    \/ \E t \in TaskIds : Retire(t)

SpecHit == Init /\ [][HitNext]_vars

C33_Held ==
    /\ \A t \in TaskIds :
          tasks[t].pc = "extract" =>
              /\ sessions[tasks[t].sess].cached_info = tasks[t].cached_info
              /\ IsSet(tasks[t].cached_info, tasks[t].service)
    /\ \A t \in TaskIds : tasks[t].result # Err("BUG")

C33_Step ==
    \A h \in HandleIds, k \in Services :
        IsSet(h, k) => IsSome(caches'[h][k])

\* C33: the assertion on the hit path never fails: a key that is_set has
\* seen set is still set in the Session's cache when extract follows,
\* whatever queries, clones, refreshes, set_auth_type and
\* set_endpoint_interface other threads interleave, because no step removes
\* a key from a cache handle.
C33_HitNeverFails == [][C33_Step]_vars /\ []C33_Held

\* A query is between is_set and extract while a discovery for the other
\* service is about to store into the same cache and a clone of the
\* Session has replaced its own handle.
C33_Witness ==
    \E t \in TaskIds, u \in TaskIds :
        /\ tasks[t].pc = "extract"
        /\ tasks[u].pc = "fetch"
        /\ tasks[u].cached_info = tasks[t].cached_info
        /\ tasks[u].service # tasks[t].service
        /\ nHandles = 2
        /\ \E s \in SessionIds : Live(s) /\ sessions[s].cached_info # tasks[t].cached_info

\* The Sessions that hold the cache handle h.
HoldersOf(h) == { s \in SessionIds : Live(s) /\ sessions[s].cached_info = h }

\* The entries of the cache handle h.
EntriesOf(h) == { k \in Services : IsSet(h, k) }

\* C34: in every reachable state two Sessions that hold the same cache
\* handle hold the same authentication object and the same endpoint
\* interface, and every entry of a cache handle was discovered for its
\* key with that authentication object and that interface (all entries of
\* one handle with the same ones).
C34_HandleIdentity ==
    /\ \A s \in SessionIds, d \in SessionIds :
          ( Live(s) /\ Live(d) /\ sessions[s].cached_info = sessions[d].cached_info ) =>
              /\ sessions[s].auth = sessions[d].auth
              /\ sessions[s].endpoint_interface = sessions[d].endpoint_interface
    /\ \A h \in HandleIds :
          \A k \in EntriesOf(h) :
              LET root == Unwrap(caches[h][k]).root_url
              IN  /\ root.service = k
                  /\ \A s \in HoldersOf(h) :
                        /\ root.auth = sessions[s].auth
                        /\ root.interface = sessions[s].endpoint_interface
                  /\ \A j \in EntriesOf(h) :
                        /\ Unwrap(caches[h][j]).root_url.auth = root.auth
                        /\ Unwrap(caches[h][j]).root_url.interface = root.interface

\* Two Sessions with different cache handles and different interfaces,
\* each cache holding an entry for the compute service; in the first
\* cache the image service is known too.
C34_Witness ==
    /\ Live(1)
    /\ Live(2)
    /\ sessions[1].cached_info # sessions[2].cached_info
    /\ sessions[1].endpoint_interface # sessions[2].endpoint_interface
    /\ IsSet(sessions[1].cached_info, "compute")
    /\ IsSet(sessions[2].cached_info, "compute")
    /\ IsSet(sessions[1].cached_info, "image") \/ IsSet(sessions[2].cached_info, "image")

C35_Step ==
    /\ \A t \in TaskIds :
          ( Started(t) /\ tasks'[t].pc = "get_endpoint" ) =>
              /\ tasks'[t].cached_info = sessions[tasks'[t].sess].cached_info
              /\ tasks'[t].auth = sessions[tasks'[t].sess].auth
              /\ tasks'[t].endpoint_interface =
                    sessions[tasks'[t].sess].endpoint_interface
    /\ \A t \in TaskIds :
          ( tasks[t].pc \in { "get_endpoint", "fetch" } /\ tasks'[t].pc # "idle" ) =>
              /\ tasks'[t].cached_info = tasks[t].cached_info
              /\ tasks'[t].auth = tasks[t].auth
              /\ tasks'[t].endpoint_interface = tasks[t].endpoint_interface
    /\ \A t \in TaskIds :
          Stores(t) =>
              LET q == tasks[t]
                  info == Unwrap(tasks'[t].info)
              IN  /\ caches'[q.cached_info][q.service] = Some(info)
                  /\ info.root_url.auth = q.auth
                  /\ info.root_url.interface = q.endpoint_interface
                  /\ \A h \in HandleIds \ { q.cached_info } : caches'[h] = caches[h]

\* C35: a discovery started on a Session keeps the cache handle, the
\* authentication object and the interface the Session held at the call;
\* when it completes after a refresh, set_auth_type or
\* set_endpoint_interface of the Session, it stores what it discovered
\* with those into that handle only, and the Session's new handle is not
\* touched.
C35_StaleDiscovery == [][C35_Step]_vars

\* A discovery has stored its entry after set_endpoint_interface on its
\* Session: the entry, discovered for the old interface, is in the old
\* handle and the new handle of the Session is empty.
C35_Witness ==
    \E t \in TaskIds :
        LET q == tasks[t]
        IN  /\ IsSome(q.info)
            /\ Live(q.sess)
            /\ sessions[q.sess].cached_info # q.cached_info
            /\ sessions[q.sess].endpoint_interface # q.endpoint_interface
            /\ caches[q.cached_info][q.service] = q.info
            /\ Unwrap(q.info).root_url.interface = q.endpoint_interface
            /\ caches[sessions[q.sess].cached_info] = EmptyCache

\* Session::refresh is called on s in this step.
RefreshCalled(s) ==
    /\ Live(s)
    /\ sessions[s].auth \in refreshing' \ refreshing

C36_Step ==
    /\ \A s \in SessionIds :
          RefreshCalled(s) =>
              \E d \in SessionIds :
                  /\ sessions[d].auth = sessions[s].auth
                  /\ sessions'[d].cached_info = nHandles + 1
                  /\ sessions[d].cached_info # nHandles + 1
                  /\ caches'[nHandles + 1] = EmptyCache
                  /\ \A o \in SessionIds : Live(o) => sessions[o].cached_info <= nHandles
                  /\ authEpoch' = authEpoch
    /\ refreshing' \subseteq refreshing =>
          \A h \in HandleIds :
              caches'[h] # caches[h] => \E t \in TaskIds : Stores(t) /\ StoreHandle(t) = h
    /\ ( refreshing' \subseteq refreshing /\ refreshing' # refreshing ) =>
          /\ sessions' = sessions
          /\ caches' = caches
          /\ nHandles' = nHandles

\* C36: Session::refresh gives the Session a new, empty cache in the very
\* step of the call, when the refresh of the authentication object is
\* only pending; the completion of that refresh, successful or failed,
\* changes neither the handle nor any cache, and while it is pending or
\* after it the new cache gets entries only from discoveries that store
\* into it.
C36_ResetAtCall == [][C36_Step]_vars

\* The only Session has refreshed, the refresh of the authentication
\* object has failed, and the Session holds the new, empty cache, the
\* entries being in the old one.
C36_Witness ==
    /\ Live(1)
    /\ ~Live(2)
    /\ nAuths = 1
    /\ sessions[1].endpoint_interface = None
    /\ sessions[1].cached_info = 2
    /\ refreshing = { }
    /\ authEpoch[1] = 0
    /\ IsSet(1, "compute")
    /\ caches[2] = EmptyCache

\* The refresh of the authentication object is pending and was not
\* driven, and the Session holds the new, empty cache.
C36_PendingWitness ==
    /\ Live(1)
    /\ ~Live(2)
    /\ nAuths = 1
    /\ sessions[1].endpoint_interface = None
    /\ sessions[1].cached_info = 2
    /\ refreshing = { 1 }
    /\ IsSet(1, "compute")
    /\ caches[2] = EmptyCache

\* The step is one of a read with a zero-length buffer: the call, or the
\* return of block_on into it.
ZeroReadStep ==
    \/ reader.pc = "idle" /\ reader' # reader /\ reader'.n = 0
    \/ reader.pc = "blocked" /\ reader.n = 0

\* The bytes of the current chunk that no read has returned.
Unread(r) == SubSeq(r.chunk, r.pos + 1, Len(r.chunk))

C37_Step ==
    ZeroReadStep =>
        /\ reader'.pc = "idle"
        /\ reader'.polls = reader.polls
        /\ source' = source
        /\ Unread(reader') = Unread(reader)
        /\ LastRead(reader').n = 0
        /\ LastRead(reader').data = << >>

\* C37: a read with a zero-length buffer returns zero at once: it does not
\* block, requests no chunk of the stream and leaves the unread bytes of
\* the current chunk where they are.
C37_ZeroReadIsNeutral == [][C37_Step]_vars

\* Over the chunks (1 2 3) and (4): a read of one byte, a read with a
\* zero-length buffer and a read of three bytes have returned (1), nothing
\* and (4); the bytes 2 and 3 were returned by no read.
C37_LostBytes ==
    /\ source.chunks = << <<1, 2, 3>>, <<4>> >>
    /\ ~source.faulty
    /\ reader.pc = "idle"
    /\ Len(reader.reads) = 3
    /\ reader.reads[1] = [ n |-> 1, tag |-> "ok", data |-> <<1>> ]
    /\ reader.reads[2] = [ n |-> 0, tag |-> "ok", data |-> << >> ]
    /\ reader.reads[3] = [ n |-> 3, tag |-> "ok", data |-> <<4>> ]

\* A read has returned an error before this step.
FailedEarlier(r) == \E i \in 1..Len(r.reads) : r.reads[i].tag = "err"

C38_Step ==
    ( /\ ReadReturns
      /\ LastRead(reader').n > 0
      /\ LastRead(reader').tag = "ok"
      /\ LastRead(reader').data = << >> ) =>
        /\ source'.ended \/ FailedEarlier(reader)
        /\ source'.ended => source'.items = << >>
        /\ ~reader'.inner

\* C38: a read with a non-empty buffer returns zero only when the stream
\* has signalled its end, nothing being left of it, or has failed at an
\* earlier read; a chunk without bytes in the middle of the stream is
\* skipped and not taken for the end.
C38_ZeroMeansEnd == [][C38_Step]_vars

\* Over the chunks (1 2 3), () and (4), reads with a buffer of three bytes
\* have returned (1 2 3), then (4), then nothing.
C38_Witness ==
    /\ source.chunks = << <<1, 2, 3>>, << >>, <<4>> >>
    /\ ~source.faulty
    /\ source.ended
    /\ Len(reader.reads) = 3
    /\ reader.reads[1] = [ n |-> 3, tag |-> "ok", data |-> <<1, 2, 3>> ]
    /\ reader.reads[2] = [ n |-> 3, tag |-> "ok", data |-> <<4>> ]
    /\ reader.reads[3] = [ n |-> 3, tag |-> "ok", data |-> << >> ]

\* The stream fails in this step: block_on returns its error.
StreamFails ==
    /\ reader.pc = "blocked"
    /\ source.items # << >>
    /\ Head(source.items).tag = "error"

C39_Step ==
    /\ StreamFails =>
          /\ ReadReturns
          /\ LastRead(reader').tag = "err"
          /\ ~reader'.inner
    /\ FailedEarlier(reader) =>
          /\ reader'.pc = "idle"
          /\ reader'.polls = reader.polls
          /\ source' = source
          /\ ReadReturns => /\ LastRead(reader').tag = "ok"
                            /\ LastRead(reader').data = << >>

\* C39: when the stream fails, the read in progress returns the error and
\* leaves no chunk request; afterwards the stream is not polled, no read
\* returns an error again, and every read returns zero bytes.
C39_ErrorIsTerminal == [][C39_Step]_vars

\* The same for readers that are never handed a zero-length buffer.
C39_NonEmptyBuffers ==
    [][(\A i \in 1..Len(reader'.reads) : reader'.reads[i].n > 0) => C39_Step]_vars

\* Over the chunk (1 2 3) of a stream that then fails: a read of one byte
\* returns (1), a zero-length read returns the error, and the next read
\* returns (2 3).
C39_BytesAfterError ==
    /\ source.chunks = << <<1, 2, 3>> >>
    /\ source.faulty
    /\ Len(reader.reads) = 3
    /\ reader.reads[1] = [ n |-> 1, tag |-> "ok", data |-> <<1>> ]
    /\ reader.reads[2] = [ n |-> 0, tag |-> "err", data |-> << >> ]
    /\ reader.reads[3] = [ n |-> 3, tag |-> "ok", data |-> <<2, 3>> ]

(***************************************************************************)
(* Claims on the result of a miss against the entry of the cache           *)
(* (SpecHit: queries under way at the same time, hits after them).         *)
(***************************************************************************)
\* The future in slot t answers from the cache in this step.
Extracts(t) ==
    /\ tasks[t].pc = "extract"
    /\ tasks'[t].pc = "done"
    /\ tasks'[t].result.tag = "ok"

C40_Step ==
    /\ \A t \in TaskIds :
          /\ Stores(t) =>
                /\ tasks'[t].result =
                      Ok(Project(tasks[t], Unwrap(tasks'[t].info)))
                /\ caches'[tasks[t].cached_info][tasks[t].service] = tasks'[t].info
          /\ Extracts(t) =>
                tasks'[t].result =
                   Ok(Project(tasks[t],
                              Unwrap(caches[sessions[tasks[t].sess].cached_info]
                                           [tasks[t].service])))
    /\ \A h \in HandleIds, service \in Services :
          caches'[h][service] # caches[h][service]
          => \E t \in TaskIds : /\ Stores(t)
                                /\ tasks[t].cached_info = h
                                /\ tasks[t].service = service

\* The result of a completed miss stays the projection of what it fetched,
\* whatever the entry has become.
C40_Own == \A t \in TaskIds : FetchedResult(tasks[t])

\* C40: a miss resolves to the projection of the ServiceInfo it fetched
\* itself and stores that ServiceInfo; an entry changes only when a miss
\* stores into it, so that it is the one stored last, and a hit resolves
\* to the projection of the entry.
C40_OwnProjection == [][C40_Step]_vars /\ []C40_Own

\* A miss has returned the projection of what it fetched; the entry of its
\* key holds another ServiceInfo, stored later by a miss that ran at the
\* same time, and a hit on the same handle has returned the projection of
\* that one, a different value.
C40_Witness ==
    /\ tasks[1].pc = "done"
    /\ IsMiss(tasks[1])
    /\ IsSome(tasks[1].info)
    /\ tasks[1].result = Ok(Project(tasks[1], Unwrap(tasks[1].info)))
    /\ tasks[2].pc = "done"
    /\ IsHit(tasks[2])
    /\ tasks[2].cached_info = tasks[1].cached_info
    /\ tasks[2].service = tasks[1].service
    /\ sessions[tasks[2].sess].cached_info = tasks[1].cached_info
    /\ caches[tasks[1].cached_info][tasks[1].service] # tasks[1].info
    /\ tasks[2].result =
          Ok(Project(tasks[2],
                     Unwrap(caches[tasks[1].cached_info][tasks[1].service])))
    /\ tasks[2].result # tasks[1].result

\* Two misses of the same key on the same handle, under way at the same
\* time, have fetched different ServiceInfo values and returned different
\* projections.
C40_RaceWitness ==
    /\ \A t \in TaskIds :
          /\ tasks[t].pc = "done"
          /\ IsMiss(tasks[t])
          /\ IsSome(tasks[t].info)
          /\ tasks[t].result = Ok(Project(tasks[t], Unwrap(tasks[t].info)))
    /\ tasks[1].cached_info = tasks[2].cached_info
    /\ tasks[1].service = tasks[2].service
    /\ tasks[1].info # tasks[2].info
    /\ tasks[1].result # tasks[2].result
    /\ caches[tasks[1].cached_info][tasks[1].service] = tasks[1].info

====
